---- MODULE Spec2Model ----
(***************************************************************************)
(* Verification model of v-content-gap-analysis.                           *)
(*                                                                         *)
(* Part I  : the concurrent fetch layer (app/utils/aio.py,                 *)
(*           app/crawler/fetcher.py): fetch_pages / fetch_urls_concurrent  *)
(*           -> fetch_urls_batch -> fetch_with_semaphore -> fetch_url.     *)
(* Part II : the embedding engine (app/embeddings/generator.py):           *)
(*           generate_embeddings_batch -> process_batch.                   *)
(* Part III: the database (app/utils/database.py,                          *)
(*           app/embeddings/vectorstore.py, app/utils/models.py) and the   *)
(*           gap analysis over it (app/embeddings/comparer.py,             *)
(*           app/analysis/gap_detector.py, main.analyze_gaps).             *)
(* Part IV : main.process_and_embed, which stores the chunks, runs the     *)
(*           embedding engine of Part II and stores the vectors.           *)
(*                                                                         *)
(* Parts V to XII follow the claims about single functions.  Each part has *)
(* its own specification; the variables a specification does not use stay  *)
(* at their idle value.                                                    *)
(***************************************************************************)
EXTENDS Integers, Sequences, FiniteSets, TLC

VARIABLES
    call,      \* arguments of the fetch call: entry point, urls, hosts, limits
    mgr,       \* the SessionManager / ClientSession in use and its connector
    own,       \* the should_close flags computed by the wrapper and the batch
    wpc,       \* position of the calling coroutine
    exc,       \* where an exception escaped from ("none" when none did)
    t,         \* one record per fetch_with_semaphore task
    sem,       \* value of asyncio.Semaphore(max_concurrent)
    results,   \* the dict fetch_urls_batch returns
    ecall,     \* arguments of generate_embeddings_batch
    b,         \* one record per process_batch task
    esem,      \* value of asyncio.Semaphore(max_concurrent) of the embedder
    epc,       \* position of generate_embeddings_batch
    embeddings, \* the list generate_embeddings_batch returns
    pages,     \* rows of table pages
    chunks,    \* rows of table chunks
    embeddings_tbl, \* rows of table embeddings
    gaps,      \* rows of table gaps, in insertion order
    seq,       \* sqlite_sequence: the AUTOINCREMENT counter of each table
    an,        \* analyze_gaps: arguments, log and result of the latest run
    op,        \* the latest call of a store function: arguments and outcome
    pe         \* process_and_embed: arguments, position and local lists

fetchVars == <<call, mgr, own, wpc, exc, t, sem, results>>
embedVars == <<ecall, b, esem, epc, embeddings>>
dbVars == <<pages, chunks, embeddings_tbl, gaps, seq>>
storeVars == <<pages, chunks, embeddings_tbl, gaps, seq, an, op, pe>>
vars == <<call, mgr, own, wpc, exc, t, sem, results,
          ecall, b, esem, epc, embeddings,
          pages, chunks, embeddings_tbl, gaps, seq, an, op, pe>>

(***************************************************************************)
(* Bounds of the model.                                                    *)
(***************************************************************************)
MaxUrls == 3          \* longest URL list
MaxConcurrent == 6    \* largest max_concurrent argument
MaxRetry == 2         \* largest retry budget when several URLs / batches run
MaxTexts == 3         \* longest list of texts to embed
MaxBatchSize == 2     \* largest batch_size
MaxEmbedRetries == 7  \* largest max_retries when a single batch is embedded

(***************************************************************************)
(* Program constants.                                                      *)
(***************************************************************************)
DEFAULT_PER_HOST_LIMIT == 5
DEFAULT_RETRY_BACKOFF_BASE == 2
MAX_RETRY_WAIT == 60
\* Settings.retry_attempts: Field(default=3, ge=1, le=10)
MAX_RETRY_ATTEMPTS == 10
\* generator.py: MAX_RETRY_WAIT = 60, API_ERROR_WAIT = 30
EMBED_MAX_RETRY_WAIT == 60
API_ERROR_WAIT == 30

Min(x, y) == IF x < y THEN x ELSE y

(***************************************************************************)
(* Part I.  The fetch layer.                                               *)
(***************************************************************************)
Hosts == {"A", "B"}
Entries == {"fetch_pages", "fetch_urls_concurrent", "fetch_urls_batch"}

\* What one session.get() attempt can end in: an HTTP status, or an exception.
Resp(status) == [status |-> status, error |-> "none"]
Err(e) == [status |-> 0, error |-> e]
StatusCodes == {200, 404, 429, 500}
Outcomes == {Resp(s) : s \in StatusCodes}
            \cup {Err("timeout"), Err("client_error"), Err("unexpected")}
\* asyncio.TimeoutError / aiohttp.ClientError can also end an attempt that is
\* still waiting for a pooled connection (ClientTimeout(total=...) covers it).
ConnectOutcomes == {Err("timeout"), Err("client_error")}

\* Every non-200 status other than 429 takes the retrying branch.
ClassifyRetriesClientErrors(r) ==
    IF r.error = "timeout" THEN "timeout"
    ELSE IF r.error = "client_error" THEN "connerr"
    ELSE IF r.error # "none" THEN "unexpected"
    ELSE IF r.status = 200 THEN "ok"
    ELSE IF r.status = 429 THEN "rate"
    ELSE "server"

\* The branch of fetch_url an outcome takes.
Classify(r) ==
    IF r.error = "timeout" THEN "timeout"
    ELSE IF r.error = "client_error" THEN "connerr"
    ELSE IF r.error # "none" THEN "unexpected"
    ELSE IF r.status = 200 THEN "ok"
    ELSE IF r.status = 429 THEN "rate"
    ELSE IF r.status >= 500 THEN "server"
    ELSE "client"

RetryableClasses == {"timeout", "connerr", "server", "rate"}

\* The 429 branch using the generic exponent.
RateLimitWaitSameExponent(attempt) ==
    Min(DEFAULT_RETRY_BACKOFF_BASE ^ attempt, MAX_RETRY_WAIT)

\* wait_time = min(backoff_base ** (attempt + 2), MAX_RETRY_WAIT)
RateLimitWait(attempt) ==
    Min(DEFAULT_RETRY_BACKOFF_BASE ^ (attempt + 2), MAX_RETRY_WAIT)

\* wait_time = min(backoff_base ** attempt, MAX_RETRY_WAIT)
RetryWait(attempt) ==
    Min(DEFAULT_RETRY_BACKOFF_BASE ^ attempt, MAX_RETRY_WAIT)

\* if attempt < retry_attempts - 1: (the generic backoff is skipped after the
\* last attempt)
SleepsAfterFailure(attempt, retry_attempts) == attempt < retry_attempts - 1

\* Off by one: range(retry_attempts + 1).
HasNextAttemptOneMore(attempt, retry_attempts) == attempt < retry_attempts

\* for attempt in range(retry_attempts): is there an iteration after `attempt`
HasNextAttempt(attempt, retry_attempts) == attempt + 1 < retry_attempts

\* except Exception: ... return None
OnUnexpected == "absent"

\* per_host_limit=min(max_concurrent, 5)
PerHostLimit(max_concurrent) == Min(max_concurrent, DEFAULT_PER_HOST_LIMIT)

\* Off by one: asyncio.Semaphore(max_concurrent + 1).
SemaphoreInitOneMore(max_concurrent) == max_concurrent + 1

\* asyncio.Semaphore(max_concurrent)
SemaphoreInit(max_concurrent) == max_concurrent

\* An acquire() that also proceeds at value zero.
SemaphoreFreeAtZero(value) == value >= 0

\* An acquire() that blocks at value one already.
SemaphoreFreeAboveOne(value) == value > 1

\* Semaphore.acquire() proceeds only while the value is positive
SemaphoreFree(value) == value > 0

Absent == [ok |-> FALSE, of |-> 0]
BodyOf(u) == [ok |-> TRUE, of |-> u]

NoManager == [exists |-> FALSE, session |-> "none",
              per_host_limit |-> 0, max_connections |-> 0]
\* SessionManager objects a caller may hand in: the defaults
\* (max_connections=100) with a strict per-host limit.
CallerManagers ==
    {[exists |-> TRUE, session |-> s, per_host_limit |-> 1, max_connections |-> 100]
        : s \in {"none", "open"}}

Tasks == 1..call.n
\* pc, attempt, wait and result are fetch_url's own state (held: whether a
\* sleeping 429 response still holds its connection); last, reqs, sleeps and
\* fails are the log of the call: the outcome of the latest attempt, the
\* session.get() calls made, the sleeps started, and the attempts that ended in
\* a timeout, a connection error, a 5xx or a 429.
NewTask == [pc |-> "new", attempt |-> 0, last |-> Err("none"), wait |-> 0,
            held |-> FALSE, reqs |-> 0, sleeps |-> 0, fails |-> 0,
            result |-> Absent]

\* Tasks that hold a pooled connection: a request in flight, or a 429 response
\* not yet released while fetch_url sleeps inside `async with session.get(...)`.
HoldsConnection(i) == t[i].pc = "request" \/ (t[i].pc = "backoff" /\ t[i].held)
InFlight == {i \in Tasks : HoldsConnection(i)}
InFlightTo(h) == {i \in InFlight : call.host[i] = h}
\* Tasks inside fetch_url (they hold a semaphore slot).
InsideFetchUrl == {i \in Tasks : t[i].pc \in {"connwait", "request", "backoff"}}

\* The whole range of retry_attempts and max_concurrent is explored for a
\* single URL; with several URLs the ranges are cut to the values that change
\* the interleavings (max_concurrent above the number of tasks never blocks).
RetryRange(n) ==
    IF n = 1 THEN MAX_RETRY_ATTEMPTS ELSE IF n = 2 THEN MaxRetry ELSE 1
ConcurrentRange(n) == IF n = 1 THEN MaxConcurrent ELSE n

FetchIdle ==
    /\ call = [n |-> 0]
    /\ mgr = NoManager
    /\ own = [wrapper |-> FALSE, batch |-> FALSE]
    /\ wpc = "idle"
    /\ exc = "none"
    /\ t = << >>
    /\ sem = 0
    /\ results = << >>

EmbedIdle ==
    /\ ecall = [n |-> 0]
    /\ b = << >>
    /\ esem = 0
    /\ epc = "idle"
    /\ embeddings = << >>

\* An empty database, as init_database creates it.
EmptyDatabase ==
    /\ pages = {}
    /\ chunks = {}
    /\ embeddings_tbl = {}
    /\ gaps = << >>
    /\ seq = [pages |-> 0, chunks |-> 0]

AnalysisIdle == an = [runs |-> 0]
StoreOpIdle == op = [name |-> "none"]
IngestIdle == pe = [pc |-> "idle"]
StoreIdle == EmptyDatabase /\ AnalysisIdle /\ StoreOpIdle /\ IngestIdle

InitFetch ==
    /\ \E n \in 1..MaxUrls, e \in Entries :
       \E host \in [1..n -> Hosts], R \in 1..RetryRange(n),
          N \in 1..ConcurrentRange(n),
          m \in {NoManager} \cup CallerManagers :
          /\ host[1] = "A"
          /\ e = "fetch_urls_batch" => ~m.exists
          /\ call = [entry |-> e, n |-> n, host |-> host,
                     max_concurrent |-> N, retry_attempts |-> R]
          /\ mgr = m
    /\ own = [wrapper |-> FALSE, batch |-> FALSE]
    /\ wpc = IF call.entry = "fetch_urls_batch" THEN "try" ELSE "call"
    /\ exc = "none"
    /\ t = [i \in 1..call.n |-> NewTask]
    /\ sem = 0
    /\ results = << >>
    /\ EmbedIdle
    /\ StoreIdle

\* SessionManager.get_session(): create the session when there is none.
get_session(m) == IF m.session = "open" THEN m ELSE [m EXCEPT !.session = "open"]

\* SessionManager.close(): close the session if it is open.
close(m) == IF m.session = "open" THEN [m EXCEPT !.session = "closed"] ELSE m

\* fetch_pages / fetch_urls_concurrent up to `session = await get_session()`.
GetSession ==
    /\ wpc = "call"
    /\ LET created == [exists |-> TRUE, session |-> "none",
                       per_host_limit |-> PerHostLimit(call.max_concurrent),
                       max_connections |-> call.max_concurrent * 2]
           m == IF mgr.exists THEN mgr ELSE created
       IN /\ own' = [own EXCEPT !.wrapper = ~mgr.exists]
          /\ mgr' = get_session(m)
    /\ wpc' = IF call.entry = "fetch_pages" THEN "headers" ELSE "try"
    /\ UNCHANGED <<call, exc, t, sem, results, embedVars, storeVars>>

\* fetch_pages: session._default_headers.update(headers), before the try block.
UpdateHeaders ==
    /\ wpc = "headers"
    /\ \/ wpc' = "try" /\ exc' = exc
       \/ wpc' = "raised" /\ exc' = "headers"
    /\ UNCHANGED <<call, mgr, own, t, sem, results, embedVars, storeVars>>

\* fetch_urls_batch: the semaphore, the session when none was passed, the tasks.
StartBatch ==
    /\ wpc = "try"
    /\ sem' = SemaphoreInit(call.max_concurrent)
    /\ own' = [own EXCEPT !.batch = ~mgr.exists]
    /\ mgr' = IF mgr.exists THEN mgr
              ELSE [exists |-> TRUE, session |-> "open",
                    per_host_limit |-> PerHostLimit(call.max_concurrent),
                    max_connections |-> call.max_concurrent]
    /\ t' = [i \in Tasks |-> [t[i] EXCEPT !.pc = "gate"]]
    /\ wpc' = "batch"
    /\ UNCHANGED <<call, exc, results, embedVars, storeVars>>

\* The task record after fetch_url returned `v`.
Finished(i, v) ==
    [t[i] EXCEPT !.pc = "done", !.result = v, !.wait = 0, !.held = FALSE]

\* The task record after fetch_url let an exception escape.
Raised(i) ==
    [t[i] EXCEPT !.pc = "raised", !.wait = 0, !.held = FALSE]

\* await asyncio.sleep(w); `h`: the 429 response still holds its connection.
Sleeping(i, w, h) ==
    [t[i] EXCEPT !.pc = "backoff", !.wait = w, !.held = h, !.sleeps = @ + 1]

\* The end of one iteration of `for attempt in range(retry_attempts)`: the next
\* session.get() call, or `return None` after the loop.
AfterIteration(i) ==
    IF HasNextAttempt(t[i].attempt, call.retry_attempts)
    THEN [t[i] EXCEPT !.pc = "connwait", !.attempt = @ + 1, !.reqs = @ + 1,
                      !.wait = 0, !.held = FALSE, !.last = Err("none")]
    ELSE Finished(i, Absent)

\* The body of fetch_url's loop on outcome r of the current attempt.
FetchUrlStep(i, r, h) ==
    LET c == Classify(r)
        a == t[i].attempt
    IN  CASE c = "ok" -> Finished(i, BodyOf(i))
          [] c = "rate" -> Sleeping(i, RateLimitWait(a), h)
          [] c = "client" -> Finished(i, Absent)
          [] c = "unexpected" ->
                IF OnUnexpected = "absent" THEN Finished(i, Absent) ELSE Raised(i)
          [] OTHER ->
                IF SleepsAfterFailure(a, call.retry_attempts)
                THEN Sleeping(i, RetryWait(a), FALSE)
                ELSE AfterIteration(i)

\* `async with semaphore:` in fetch_with_semaphore, then fetch_url's first
\* session.get().  asyncio.Semaphore wakes its waiters in arrival order, and the
\* tasks arrive in list order.
Admit(i) ==
    /\ wpc = "batch"
    /\ t[i].pc = "gate"
    /\ SemaphoreFree(sem)
    /\ \A j \in Tasks : j < i => t[j].pc # "gate"
    /\ sem' = sem - 1
    /\ t' = [t EXCEPT ![i] = [@ EXCEPT !.pc = "connwait", !.reqs = 1]]
    /\ UNCHANGED <<call, mgr, own, wpc, exc, results, embedVars, storeVars>>

\* A connector that checks the total limit only.
CanConnectIgnoresHost(i) ==
    Cardinality(InFlight) < mgr.max_connections

\* TCPConnector(limit=..., limit_per_host=...): a request gets a connection
\* only below both limits.
CanConnect(i) ==
    /\ Cardinality(InFlight) < mgr.max_connections
    /\ Cardinality(InFlightTo(call.host[i])) < mgr.per_host_limit

\* session.get() obtains its connection and sends the request.
Connect(i) ==
    /\ wpc = "batch"
    /\ t[i].pc = "connwait"
    /\ CanConnect(i)
    /\ t' = [t EXCEPT ![i] = [@ EXCEPT !.pc = "request"]]
    /\ UNCHANGED <<call, mgr, own, wpc, exc, sem, results, embedVars, storeVars>>

\* The attempt of task i ends in outcome r; fetch_url handles it, and the
\* semaphore slot is given back when fetch_url has returned.
Respond(i, r) ==
    /\ wpc = "batch"
    /\ \/ t[i].pc = "request"
       \/ t[i].pc = "connwait" /\ r \in ConnectOutcomes
    /\ \E h \in BOOLEAN :
          /\ h => (Classify(r) = "rate")
          /\ t' = [t EXCEPT ![i] =
                     [FetchUrlStep(i, r, h) EXCEPT
                        !.last = r,
                        !.fails = IF Classify(r) \in RetryableClasses
                                  THEN @ + 1 ELSE @]]
    /\ sem' = IF t'[i].pc \in {"done", "raised"} THEN sem + 1 ELSE sem
    /\ UNCHANGED <<call, mgr, own, wpc, exc, results, embedVars, storeVars>>

\* asyncio.sleep() is over.
Wake(i) ==
    /\ wpc = "batch"
    /\ t[i].pc = "backoff"
    /\ t' = [t EXCEPT ![i] = AfterIteration(i)]
    /\ sem' = IF t'[i].pc = "done" THEN sem + 1 ELSE sem
    /\ UNCHANGED <<call, mgr, own, wpc, exc, results, embedVars, storeVars>>

\* Keeping only the URLs that have content.
GatherResultsSkipsAbsent ==
    [u \in {i \in Tasks : t[i].result.ok} |-> t[u].result]

\* for url, content in responses: results[url] = content
GatherResults == [u \in Tasks |-> t[u].result]

\* responses = await asyncio.gather(*tasks): returns when every task has
\* returned, raises as soon as one task has raised.
Gather ==
    /\ wpc = "batch"
    /\ LET raised == \E i \in Tasks : t[i].pc = "raised"
       IN /\ raised \/ \A i \in Tasks : t[i].pc = "done"
          /\ exc' = IF raised THEN "batch" ELSE exc
          /\ results' = IF raised THEN results ELSE GatherResults
    /\ wpc' = "batch_finally"
    /\ UNCHANGED <<call, mgr, own, t, sem, embedVars, storeVars>>

\* fetch_urls_batch: finally: if should_close: await session.close()
BatchFinally ==
    /\ wpc = "batch_finally"
    /\ mgr' = IF own.batch THEN close(mgr) ELSE mgr
    /\ wpc' = IF call.entry # "fetch_urls_batch" THEN "finally"
              ELSE IF exc = "none" THEN "returned" ELSE "raised"
    /\ UNCHANGED <<call, own, exc, t, sem, results, embedVars, storeVars>>

\* fetch_pages / fetch_urls_concurrent:
\* finally: if should_close: await session_manager.close()
WrapperFinally ==
    /\ wpc = "finally"
    /\ mgr' = IF own.wrapper THEN close(mgr) ELSE mgr
    /\ wpc' = IF exc = "none" THEN "returned" ELSE "raised"
    /\ UNCHANGED <<call, own, exc, t, sem, results, embedVars, storeVars>>

NextFetch ==
    \/ GetSession
    \/ UpdateHeaders
    \/ StartBatch
    \/ \E i \in Tasks : Admit(i)
    \/ \E i \in Tasks : Connect(i)
    \/ \E i \in Tasks, r \in Outcomes : Respond(i, r)
    \/ \E i \in Tasks : Wake(i)
    \/ Gather
    \/ BatchFinally
    \/ WrapperFinally

SpecFetch == InitFetch /\ [][NextFetch]_vars

(***************************************************************************)
(* Claims about the fetch layer.                                           *)
(***************************************************************************)

\* C1: during fetch_urls_batch with max_concurrent = N, at most N URLs are
\* inside fetch_url (waiting for a connection, request in flight, or in
\* backoff) in every reachable state.
C1_GateBound == Cardinality(InsideFetchUrl) <= call.max_concurrent

\* The gate is full, a URL waits at it, and a URL inside is in backoff.
C1_Witness ==
    /\ wpc = "batch"
    /\ Cardinality(InsideFetchUrl) = call.max_concurrent
    /\ \E i \in Tasks : t[i].pc = "gate"
    /\ \E j \in Tasks : t[j].pc = "backoff"

Returned == wpc \in {"batch_finally", "finally", "returned"}

C3_RetriesExhausted ==
    \A i \in Tasks :
        /\ t[i].reqs <= call.retry_attempts
        /\ t[i].pc # "raised"
        /\ (t[i].pc = "done" /\ t[i].fails = t[i].reqs) =>
              (t[i].reqs = call.retry_attempts /\ t[i].result = Absent)

\* A URL whose three or more attempts all failed in a retryable way is done.
C3_Witness ==
    \E i \in Tasks :
        /\ t[i].pc = "done"
        /\ t[i].fails = t[i].reqs
        /\ t[i].reqs >= 3
        /\ t[i].last = Err("timeout")

IsOther4xx(r) ==
    r.error = "none" /\ r.status >= 400 /\ r.status < 500 /\ r.status # 429

\* C4: once a 4xx other than 429 has arrived, fetch_url has returned absent:
\* that response was the last request (one per attempt so far) and no sleep
\* followed it (one sleep per earlier attempt), however many attempts remain.
C4_ClientErrorAborts ==
    \A i \in Tasks :
        IsOther4xx(t[i].last) =>
            /\ t[i].pc = "done"
            /\ t[i].result = Absent
            /\ t[i].wait = 0
            /\ t[i].reqs = t[i].attempt + 1
            /\ t[i].sleeps = t[i].attempt

\* A 404 arrived on the second attempt while attempts remained.
C4_Witness ==
    \E i \in Tasks :
        /\ t[i].last = Resp(404)
        /\ t[i].attempt = 1
        /\ t[i].attempt + 1 < call.retry_attempts
        /\ t[i].pc = "done"

\* The wait fetch_url applies after a 5xx at attempt k (none after the last).
ServerWaitAt(k, retry_attempts) ==
    IF SleepsAfterFailure(k, retry_attempts) THEN RetryWait(k) ELSE 0

InRateLimitBackoff(i) == t[i].pc = "backoff" /\ Classify(t[i].last) = "rate"

C6_UnexpectedReraised ==
    \A i \in Tasks :
        t[i].last = Err("unexpected") => (t[i].pc = "raised" /\ t[i].result # Absent)

Exited == wpc \in {"returned", "raised"}

\* C7 as stated: a session created by fetch_pages / fetch_urls_concurrent is
\* closed on every exit, return or exception; a caller's session manager still
\* has its session open after the call.
C7_SessionReleased ==
    (Exited /\ call.entry # "fetch_urls_batch") =>
        /\ own.wrapper => mgr.session # "open"
        /\ ~own.wrapper => mgr.session = "open"

PerHostBounded == \A h \in Hosts : Cardinality(InFlightTo(h)) <= mgr.per_host_limit

\* C8 as stated: in fetch_pages the requests to one host never exceed the
\* per-host limit, and that limit is lower than max_concurrent.
C8_Original ==
    (call.entry = "fetch_pages" /\ wpc = "batch") =>
        /\ PerHostBounded
        /\ mgr.per_host_limit < call.max_concurrent

\* C8 amended: in fetch_pages the requests to one host never exceed the
\* per-host limit of the session's connector; for a session fetch_pages created
\* the limit is min(max_concurrent, 5): never above max_concurrent, and below
\* it exactly when max_concurrent > 5.
C8_PerHostLimit ==
    (call.entry = "fetch_pages" /\ wpc = "batch") =>
        /\ PerHostBounded
        /\ own.wrapper =>
              /\ mgr.per_host_limit <= call.max_concurrent
              /\ mgr.per_host_limit < call.max_concurrent
                    <=> call.max_concurrent > DEFAULT_PER_HOST_LIMIT

\* fetch_pages made the session, host A is at its per-host limit, and the
\* limit equals max_concurrent.
C8_Witness ==
    /\ call.entry = "fetch_pages"
    /\ wpc = "batch"
    /\ own.wrapper
    /\ Cardinality(InFlightTo("A")) = mgr.per_host_limit
    /\ mgr.per_host_limit = call.max_concurrent

BlockedOnHostLimit(j) ==
    /\ t[j].pc = "connwait"
    /\ Cardinality(InFlightTo(call.host[j])) >= mgr.per_host_limit

\* C9 as stated: a URL of another host is never kept waiting at the gate by
\* tasks that hold gate slots while blocked on their own host's limit.
C9_OtherHostsProceed ==
    ~ \E i, j \in Tasks :
        /\ call.entry = "fetch_pages"
        /\ wpc = "batch"
        /\ t[i].pc = "gate"
        /\ ~SemaphoreFree(sem)
        /\ BlockedOnHostLimit(j)
        /\ call.host[i] # call.host[j]
        /\ Cardinality(InFlightTo(call.host[i])) < mgr.per_host_limit

(***************************************************************************)
(* Part II.  The embedding engine.                                         *)
(***************************************************************************)

\* A text is the empty string, a whitespace-only string, or words; `id` tells
\* the texts apart (the position it was submitted at).
TextKinds == {"empty", "space", "words"}
Text(i, k) == [id |-> i, kind |-> k]

\* text.strip(): what is left of the text without its outer whitespace.
strip(kind) == IF kind = "space" THEN "empty" ELSE kind

\* The filter without the strip(): `if text`.
IsValidTextNoStrip(text) == text.kind # "empty"

\* `text and text.strip()`: the texts process_batch keeps.
IsValidText(text) == text.kind # "empty" /\ strip(text.kind) # "empty"

\* The vector the service computes from a text.
Embedding(text) == [ok |-> TRUE, of |-> text.id]

\* What one client.embeddings.create() call can end in, by except clause.
EmbedOutcomes == {"ok", "rate_limit", "api_error", "timeout", "unexpected"}

\* wait_time = min(2 ** attempt, MAX_RETRY_WAIT)
RateLimitErrorWait(attempt) == Min(2 ^ attempt, EMBED_MAX_RETRY_WAIT)

\* wait_time = min(2 ** attempt, API_ERROR_WAIT)
ApiErrorWait(attempt) == Min(2 ^ attempt, API_ERROR_WAIT)

\* if attempt < max_retries - 1: sleep, else: give the batch up
RetriesLeft(attempt, max_retries) == attempt < max_retries - 1

\* for i in range(0, len(texts), batch_size)
NumBatches == (ecall.n + ecall.batch_size - 1) \div ecall.batch_size
Batches == 1..NumBatches
BatchStart(j) == (j - 1) * ecall.batch_size

\* batch = texts[i:i + batch_size]
BatchTexts(j) ==
    SubSeq(ecall.texts, BatchStart(j) + 1,
           Min(BatchStart(j) + ecall.batch_size, ecall.n))

\* [None] * len(batch_texts)
AllAbsent(j) == [k \in 1..Len(BatchTexts(j)) |-> Absent]

\* Giving up a batch with an empty list.
FailedBatchResultEmpty(j) == << >>

\* What process_batch returns for a batch it gives up.
FailedBatchResult(j) == AllAbsent(j)

\* indices of valid_batch: the positions in the batch of the texts kept.
ValidIndices(j) == {k \in 1..Len(BatchTexts(j)) : IsValidText(BatchTexts(j)[k])}

RECURSIVE InOrder(_)
\* The members of a set of positions, ascending.
InOrder(S) ==
    IF S = {} THEN << >>
    ELSE LET m == CHOOSE x \in S : \A y \in S : x <= y
         IN  <<m>> \o InOrder(S \ {m})

\* valid_texts: the texts sent to the service, in batch order.
ValidTexts(j) == [k \in 1..Cardinality(ValidIndices(j)) |->
                     BatchTexts(j)[InOrder(ValidIndices(j))[k]]]

\* response.data: one vector per text sent, in the order sent.
ResponseData(sent) == [k \in 1..Len(sent) |-> Embedding(sent[k])]

\* for idx, embedding_data in zip(indices, response.data):
\*     batch_embeddings[idx] = embedding
BatchEmbeddings(j, data) ==
    LET indices == InOrder(ValidIndices(j))
    IN  [k \in 1..Len(BatchTexts(j)) |->
            IF \E q \in 1..Min(Len(indices), Len(data)) : indices[q] = k
            THEN data[CHOOSE q \in 1..Min(Len(indices), Len(data)) : indices[q] = k]
            ELSE Absent]

\* The whole range of max_retries is explored for a single batch; with more
\* batches it is cut as for the fetch layer.
EmbedRetryRange(nb) ==
    IF nb = 1 THEN MaxEmbedRetries ELSE IF nb <= 3 THEN MaxRetry ELSE 1

\* pc, attempt, wait and result are process_batch's own state; last, calls,
\* sleeps and sent are the log of the batch: the outcome of the latest call, the
\* service calls made, the sleeps started and the texts of the latest call.
NewBatch == [pc |-> "gate", attempt |-> 0, last |-> "none", wait |-> 0,
             calls |-> 0, sleeps |-> 0, sent |-> << >>, result |-> << >>]

InitEmbed ==
    /\ \E n \in 1..MaxTexts, bs \in 1..MaxBatchSize :
       \E kinds \in [1..n -> TextKinds],
          M \in 1..((n + bs - 1) \div bs),
          R \in 1..EmbedRetryRange((n + bs - 1) \div bs) :
          ecall = [n |-> n, texts |-> [i \in 1..n |-> Text(i, kinds[i])],
                   batch_size |-> bs, max_retries |-> R, max_concurrent |-> M]
    /\ b = [j \in 1..NumBatches |-> NewBatch]
    /\ esem = ecall.max_concurrent
    /\ epc = "gather"
    /\ embeddings = << >>
    /\ FetchIdle
    /\ StoreIdle

BatchDone(j, res) ==
    [b[j] EXCEPT !.pc = "done", !.result = res, !.wait = 0]

BatchRaised(j) == [b[j] EXCEPT !.pc = "raised", !.wait = 0]

BatchSleeping(j, w) ==
    [b[j] EXCEPT !.pc = "backoff", !.wait = w, !.sleeps = @ + 1]

\* client.embeddings.create(model=model, input=list(valid_texts))
BatchCalling(j, attempt) ==
    [b[j] EXCEPT !.pc = "call", !.attempt = attempt, !.calls = @ + 1,
                 !.sent = ValidTexts(j), !.wait = 0, !.last = "none"]

\* The end of one iteration of `for attempt in range(max_retries)` that did not
\* return: the next call, or the `return [None] * len(batch_texts)` after the
\* loop.
NextBatchAttempt(j) ==
    IF b[j].attempt + 1 < ecall.max_retries
    THEN BatchCalling(j, b[j].attempt + 1)
    ELSE BatchDone(j, FailedBatchResult(j))

\* except Exception: ... return [None] * len(batch_texts)
OnUnexpectedEmbed == "absent"

\* The try/except of process_batch on outcome o of the current call.
ProcessBatchStep(j, o) ==
    LET a == b[j].attempt
    IN  CASE o = "ok" ->
                BatchDone(j, BatchEmbeddings(j, ResponseData(b[j].sent)))
          [] o = "rate_limit" ->
                IF RetriesLeft(a, ecall.max_retries)
                THEN BatchSleeping(j, RateLimitErrorWait(a))
                ELSE BatchDone(j, FailedBatchResult(j))
          [] o = "api_error" ->
                IF RetriesLeft(a, ecall.max_retries)
                THEN BatchSleeping(j, ApiErrorWait(a))
                ELSE BatchDone(j, FailedBatchResult(j))
          [] o = "timeout" ->
                IF a >= ecall.max_retries - 1
                THEN BatchDone(j, FailedBatchResult(j))
                ELSE NextBatchAttempt(j)
          [] OTHER ->
                IF OnUnexpectedEmbed = "absent"
                THEN BatchDone(j, FailedBatchResult(j))
                ELSE BatchRaised(j)

Finishes(rec) == rec.pc \in {"done", "raised"}

\* `async with semaphore:`, the filter of the blank texts, and either the
\* return for a batch with no valid text or the first service call.
EAdmit(j) ==
    /\ epc = "gather"
    /\ b[j].pc = "gate"
    /\ SemaphoreFree(esem)
    /\ \A k \in Batches : k < j => b[k].pc # "gate"
    /\ b' = [b EXCEPT ![j] = IF ValidIndices(j) = {}
                             THEN BatchDone(j, AllAbsent(j))
                             ELSE BatchCalling(j, 0)]
    /\ esem' = IF Finishes(b'[j]) THEN esem ELSE esem - 1
    /\ UNCHANGED <<ecall, epc, embeddings, fetchVars, storeVars>>

\* The service call of batch j ends in outcome o.
ERespond(j, o) ==
    /\ epc = "gather"
    /\ b[j].pc = "call"
    /\ b' = [b EXCEPT ![j] = [ProcessBatchStep(j, o) EXCEPT !.last = o]]
    /\ esem' = IF Finishes(b'[j]) THEN esem + 1 ELSE esem
    /\ UNCHANGED <<ecall, epc, embeddings, fetchVars, storeVars>>

\* asyncio.sleep(wait_time) is over.
EWake(j) ==
    /\ epc = "gather"
    /\ b[j].pc = "backoff"
    /\ b' = [b EXCEPT ![j] = NextBatchAttempt(j)]
    /\ esem' = IF Finishes(b'[j]) THEN esem + 1 ELSE esem
    /\ UNCHANGED <<ecall, epc, embeddings, fetchVars, storeVars>>

RECURSIVE Flatten(_, _)
\* for batch_result in batch_results: embeddings.extend(batch_result)
Flatten(res, j) ==
    IF j > Len(res) THEN << >> ELSE res[j] \o Flatten(res, j + 1)

\* Extending the list in reverse task order.
BatchResultsReversed ==
    [j \in Batches |-> b[NumBatches + 1 - j].result]

\* batch_results = await asyncio.gather(*tasks): the results in task order.
BatchResults == [j \in Batches |-> b[j].result]

\* asyncio.gather returns when every batch has returned (it raises as soon as
\* one has raised); then the results are flattened.
EGather ==
    /\ epc = "gather"
    /\ LET raised == \E j \in Batches : b[j].pc = "raised"
       IN /\ raised \/ \A j \in Batches : b[j].pc = "done"
          /\ epc' = IF raised THEN "raised" ELSE "returned"
          /\ embeddings' = IF raised THEN embeddings ELSE Flatten(BatchResults, 1)
    /\ UNCHANGED <<ecall, b, esem, fetchVars, storeVars>>

NextEmbed ==
    \/ \E j \in Batches : EAdmit(j)
    \/ \E j \in Batches, o \in EmbedOutcomes : ERespond(j, o)
    \/ \E j \in Batches : EWake(j)
    \/ EGather

SpecEmbed == InitEmbed /\ [][NextEmbed]_vars

(***************************************************************************)
(* Claims about the embedding engine.                                      *)
(***************************************************************************)
BatchOf(i) == ((i - 1) \div ecall.batch_size) + 1

\* C10: generate_embeddings_batch returns one slot per input text, in input
\* order, whatever the batches ended in: slot i holds the vector of text i when
\* text i is not blank and the call of its batch succeeded, and absent
\* otherwise, so a batch given up blanks its own slots only; no exception
\* leaves the call.
C10_OneSlotPerText ==
    /\ epc # "raised"
    /\ \A j \in Batches : b[j].pc # "raised"
    /\ epc = "returned" =>
          /\ Len(embeddings) = ecall.n
          /\ \A i \in 1..ecall.n :
                embeddings[i] =
                    IF b[BatchOf(i)].last = "ok" /\ IsValidText(ecall.texts[i])
                    THEN Embedding(ecall.texts[i])
                    ELSE Absent

\* Returned with three texts in two batches: the first batch was given up after
\* its retries, the second succeeded and its text has its vector.
C10_Witness ==
    /\ epc = "returned"
    /\ ecall.n = 3 /\ ecall.batch_size = 2
    /\ b[1].last = "rate_limit" /\ b[1].calls = 2
    /\ embeddings[1] = Absent /\ embeddings[2] = Absent
    /\ embeddings[3] = Embedding(ecall.texts[3])

IsBlank(text) == text.kind \in {"empty", "space"}
IsNotBlank(text) == ~IsBlank(text)

\* C11: for each batch, every service call carries exactly the non-blank texts
\* of the batch, in batch order; a batch of blank texts only makes no call; the
\* batch's result has one slot per text, absent for each blank text, and a
\* vector sits only in the slot of the text it was computed from (after a
\* successful call every non-blank text has its vector).
C11_BlankFiltered ==
    \A j \in Batches :
        /\ b[j].calls > 0 => b[j].sent = SelectSeq(BatchTexts(j), IsNotBlank)
        /\ (\A k \in 1..Len(BatchTexts(j)) : IsBlank(BatchTexts(j)[k]))
              => b[j].calls = 0
        /\ b[j].pc = "done" =>
              /\ Len(b[j].result) = Len(BatchTexts(j))
              /\ \A k \in 1..Len(BatchTexts(j)) :
                    /\ IsBlank(BatchTexts(j)[k]) => b[j].result[k] = Absent
                    /\ b[j].result[k].ok =>
                          b[j].result[k].of = BatchTexts(j)[k].id
                    /\ (b[j].last = "ok" /\ IsNotBlank(BatchTexts(j)[k]))
                          => b[j].result[k].ok

\* Three texts in batches of two: the first batch holds a whitespace-only text
\* before a non-blank one, one text was sent and its vector is in slot 2; the
\* second batch is an empty string and made no call.
C11_Witness ==
    /\ epc = "returned"
    /\ ecall.n = 3 /\ ecall.batch_size = 2
    /\ ecall.texts[1].kind = "space" /\ ecall.texts[2].kind = "words"
    /\ ecall.texts[3].kind = "empty"
    /\ b[1].calls = 1 /\ Len(b[1].sent) = 1
    /\ b[2].calls = 0
    /\ embeddings = <<Absent, Embedding(ecall.texts[2]), Absent>>

\* Batches inside `async with semaphore` that have not returned: a service call
\* in flight, or asleep between two calls.
BeingProcessed == {j \in Batches : b[j].pc \in {"call", "backoff"}}

\* C12: at most max_concurrent batches are being processed at any time.
C12_BatchGateBound == Cardinality(BeingProcessed) <= ecall.max_concurrent

\* Three batches with max_concurrent = 2: two are being processed, one of them
\* in backoff, and the third waits at the semaphore.
C12_Witness ==
    /\ NumBatches = 3 /\ ecall.max_concurrent = 2
    /\ Cardinality(BeingProcessed) = 2
    /\ \E j \in Batches : b[j].pc = "backoff"
    /\ \E j \in Batches : b[j].pc = "gate"

\* C13 as stated: whenever a batch sleeps after a rate-limit error at attempt k
\* (a retry follows), the wait is strictly longer than the wait after an API or
\* connection error at the same attempt k.
C13_RateLimitWaitsLonger ==
    \A j \in Batches :
        (b[j].pc = "backoff" /\ b[j].last = "rate_limit") =>
            b[j].wait > ApiErrorWait(b[j].attempt)

(***************************************************************************)
(* Part III.  The database and the gap analysis.                           *)
(***************************************************************************)
MaxRuns == 2        \* most analyze_gaps runs over one database

\* Settings.similarity_threshold: Field(default=0.45, ge=0.0, le=1.0); scores
\* and thresholds are in hundredths.
DEFAULT_SIMILARITY_THRESHOLD == 45
\* if similarity_score < 0.2: ... elif similarity_score < 0.35:
HIGH_PRIORITY_BELOW == 20
MEDIUM_PRIORITY_BELOW == 35

NULL == "NULL"

\* A URL: what stands before "://" and the rest. NoUrl is the empty string.
Url(scheme, name) == [scheme |-> scheme, name |-> name]
NoUrl == Url("", "")

\* v.startswith(('http://', 'https://'))
StartsWithHttp(u) == u.scheme \in {"http", "https"}

\* An Optional[number]: None, or a value.
None == {}
Some(x) == {x}
ValueOf(o) == CHOOSE x \in o : TRUE

Abs(x) == IF x < 0 THEN -x ELSE x

\* The cosine similarity of two vectors, in hundredths. A vector stands for the
\* text it was computed from (field `of`); the texts of the analysis are topics
\* 1, 2, ... and the similarity of two vectors falls with the distance of their
\* topics, down to a negative cosine.
CosTable == <<100, 45, 35, 20, 10, -10>>
Topics == 1..Len(CosTable)
cosine_similarity(v, w) == CosTable[Abs(v.of - w.of) + 1]

\* compute_similarity(embedding1, embedding2)
compute_similarity(embedding1, embedding2) ==
    cosine_similarity(embedding1, embedding2)

EMBEDDING_MODEL == "text-embedding-3-large"

\* The result set of get_all_embeddings(db_path, is_primary): embeddings joined
\* with their chunk and its page.
get_all_embeddings(is_primary) ==
    {[chunk_id |-> x[1].chunk_id, page_id |-> x[2].page_id,
      embedding |-> x[1].embedding, url |-> x[3].url] :
        x \in {y \in embeddings_tbl \X chunks \X pages :
                  /\ y[1].chunk_id = y[2].id
                  /\ y[2].page_id = y[3].id
                  /\ y[3].is_primary = is_primary}}

RECURSIVE Orderings(_)
\* The orders a query without ORDER BY may return a result set in.
Orderings(S) ==
    IF S = {} THEN {<< >>}
    ELSE UNION {{<<x>> \o rest : rest \in Orderings(S \ {x})} : x \in S}

\* similarities = [compute_similarity(comp_emb, prim_emb) for prim_emb in ...]
Similarities(comp_emb, primary_embeddings) ==
    [k \in 1..Len(primary_embeddings) |->
        compute_similarity(comp_emb, primary_embeddings[k].embedding)]

\* Taking the least similarity as the best match.
min_similarity(xs) ==
    CHOOSE m \in {xs[k] : k \in 1..Len(xs)} : \A k \in 1..Len(xs) : m <= xs[k]

\* max(similarities)
max_similarity(xs) ==
    CHOOSE m \in {xs[k] : k \in 1..Len(xs)} : \A k \in 1..Len(xs) : xs[k] <= m

\* similarities.index(max_similarity): the first position holding the value
index(xs, x) ==
    CHOOSE k \in 1..Len(xs) : xs[k] = x /\ \A q \in 1..(k - 1) : xs[q] # x

\* A gap also when the best match equals the threshold.
EmitsGapAtThreshold(similarity, threshold) == similarity <= threshold

\* if max_similarity < threshold:
EmitsGap(similarity, threshold) == similarity < threshold

\* The dict find_content_gaps builds for one competitor tuple (it has no
\* 'priority' key).
ContentGap(comp, primary_embeddings) ==
    LET similarities == Similarities(comp.embedding, primary_embeddings)
        best == max_similarity(similarities)
        max_idx == index(similarities, best)
    IN  [competitor_url |-> comp.url,
         closest_match_url |-> primary_embeddings[max_idx].url,
         similarity_score |-> Some(best),
         gap_type |-> "missing_content",
         priority |-> NULL]

RECURSIVE GapsFrom(_, _, _, _)
\* for comp_id, comp_emb, comp_url in competitor_embeddings: ...
GapsFrom(primary_embeddings, competitor_embeddings, threshold, k) ==
    IF k > Len(competitor_embeddings) THEN << >>
    ELSE LET gap == ContentGap(competitor_embeddings[k], primary_embeddings)
         IN  (IF EmitsGap(ValueOf(gap.similarity_score), threshold)
              THEN <<gap>> ELSE << >>)
             \o GapsFrom(primary_embeddings, competitor_embeddings, threshold,
                         k + 1)

\* find_content_gaps(primary_embeddings, competitor_embeddings, threshold)
find_content_gaps(primary_embeddings, competitor_embeddings, threshold) ==
    IF Len(primary_embeddings) = 0 THEN << >>
    ELSE GapsFrom(primary_embeddings, competitor_embeddings, threshold, 1)

GapTypes == {"missing_content", "missing_page", "thin_content",
             "metadata_gap", "schema_gap"}
Priorities == {"low", "medium", "high"}

\* Accepting every score.
GapModelAnyScore(g) ==
    /\ g.competitor_url # NoUrl => StartsWithHttp(g.competitor_url)
    /\ g.gap_type \in GapTypes
    /\ g.closest_match_url # NoUrl => StartsWithHttp(g.closest_match_url)
    /\ g.priority # NULL => g.priority \in Priorities

\* GapModel(**gap) validates. (A competitor_url that is the empty string passes
\* validate_urls; closest_match_url NoUrl is None or the empty string.)
GapModel(g) ==
    /\ g.competitor_url # NoUrl => StartsWithHttp(g.competitor_url)
    /\ g.gap_type \in GapTypes
    /\ g.similarity_score # None =>
          (ValueOf(g.similarity_score) >= 0 /\ ValueOf(g.similarity_score) <= 100)
    /\ g.closest_match_url # NoUrl => StartsWithHttp(g.closest_match_url)
    /\ g.priority # NULL => g.priority \in Priorities

\* get_priority_value: Priority.HIGH = 1, MEDIUM = 2, LOW = 3 (the default)
get_priority_value(priority_str) ==
    IF priority_str = "high" THEN 1 ELSE IF priority_str = "medium" THEN 2 ELSE 3

\* The row store_gaps_batch inserts for a gap.
GapRow(g) ==
    [competitor_url |-> g.competitor_url, gap_type |-> g.gap_type,
     similarity_score |-> g.similarity_score,
     closest_match_url |-> g.closest_match_url,
     priority |-> get_priority_value(g.priority)]

GapRows(gs) == [k \in 1..Len(gs) |-> GapRow(gs[k])]

\* store_gaps_batch validates every gap before it opens the database.
GapsBatchValid(gs) == \A k \in 1..Len(gs) : GapModel(gs[k])

\* Table gaps after store_gaps_batch(db_path, gs) returned: executemany INSERT.
store_gaps_batch(tbl, gs) == tbl \o GapRows(gs)

\* SELECT DISTINCT competitor_url, closest_match_url, similarity_score
\* FROM gaps WHERE gap_type = 'missing_content' AND similarity_score < ?
MissingContentRows(tbl, similarity_threshold) ==
    {[competitor_url |-> tbl[k].competitor_url,
      closest_match_url |-> tbl[k].closest_match_url,
      similarity_score |-> ValueOf(tbl[k].similarity_score)] :
        k \in {q \in 1..Len(tbl) :
                  /\ tbl[q].gap_type = "missing_content"
                  /\ tbl[q].similarity_score # None
                  /\ ValueOf(tbl[q].similarity_score) < similarity_threshold}}

RECURSIVE OrderedByScore(_)
\* ORDER BY similarity_score ASC: the orders of the rows the query may return
\* (rows of equal score in any order).
OrderedByScore(S) ==
    IF S = {} THEN {<< >>}
    ELSE UNION {{<<x>> \o rest : rest \in OrderedByScore(S \ {x})} :
                  x \in {y \in S : \A z \in S :
                                      y.similarity_score <= z.similarity_score}}

\* Medium from 0.2 down.
MissingPagePriorityInclusive(similarity_score) ==
    IF similarity_score <= HIGH_PRIORITY_BELOW THEN "high"
    ELSE IF similarity_score <= MEDIUM_PRIORITY_BELOW THEN "medium"
    ELSE "low"

\* The priority detect_missing_pages gives a score.
MissingPagePriority(similarity_score) ==
    IF similarity_score < HIGH_PRIORITY_BELOW THEN "high"
    ELSE IF similarity_score < MEDIUM_PRIORITY_BELOW THEN "medium"
    ELSE "low"

\* The dict detect_missing_pages appends for a row.
MissingPage(row) ==
    [type |-> "missing_page", competitor_url |-> row.competitor_url,
     closest_match_url |-> row.closest_match_url,
     similarity_score |-> row.similarity_score,
     priority |-> MissingPagePriority(row.similarity_score)]

RECURSIVE KeepEveryRow(_, _, _)
\* The loop without the processed_urls test.
KeepEveryRow(rows, k, processed_urls) ==
    IF k > Len(rows) THEN << >>
    ELSE <<MissingPage(rows[k])>> \o KeepEveryRow(rows, k + 1, processed_urls)

RECURSIVE DedupeByUrl(_, _, _)
\* for row in rows: skip a competitor_url already in processed_urls
DedupeByUrl(rows, k, processed_urls) ==
    IF k > Len(rows) THEN << >>
    ELSE IF rows[k].competitor_url \in processed_urls
         THEN DedupeByUrl(rows, k + 1, processed_urls)
         ELSE <<MissingPage(rows[k])>>
              \o DedupeByUrl(rows, k + 1,
                             processed_urls \cup {rows[k].competitor_url})

\* One gap per row.
detect_missing_pages_no_dedupe(rows) == KeepEveryRow(rows, 1, {})

\* detect_missing_pages on the rows the query returned.
detect_missing_pages(rows) == DedupeByUrl(rows, 1, {})

\* The rows of detect_metadata_gaps' query: primary pages with a NULL title,
\* description or h1.
MetadataGapRows ==
    {p \in pages : p.is_primary
                   /\ (p.title = NULL \/ p.description = NULL \/ p.h1 = NULL)}

\* detect_metadata_gaps reads `seen_urls`, which is not defined, on the first
\* row of its loop.
detect_metadata_gaps_raises == MetadataGapRows # {}

\* What detect_metadata_gaps(db_path) gives: the exception it raises, and the
\* URLs of the gaps it returns (gaps is still empty when the loop is not
\* entered).
detect_metadata_gaps ==
    IF detect_metadata_gaps_raises
    THEN [raised |-> "NameError", urls |-> {}]
    ELSE [raised |-> "none", urls |-> {}]

\* INSERT INTO embeddings ... ON CONFLICT(chunk_id) DO NOTHING
UpsertEmbeddingDoNothing(tbl, chunk_id, embedding, model) ==
    IF \E e \in tbl : e.chunk_id = chunk_id THEN tbl
    ELSE tbl \cup {[chunk_id |-> chunk_id, embedding |-> embedding,
                    model |-> model]}

\* INSERT INTO embeddings ... ON CONFLICT(chunk_id) DO UPDATE SET ...
UpsertEmbedding(tbl, chunk_id, embedding, model) ==
    {e \in tbl : e.chunk_id # chunk_id}
    \cup {[chunk_id |-> chunk_id, embedding |-> embedding, model |-> model]}

\* The database the analysis runs on: two primary pages and two competitor
\* pages with one chunk each, or both competitor chunks on one page.
PrimaryUrl(k) == Url("https", IF k = 1 THEN "primary/1" ELSE "primary/2")
CompetitorUrl(k) == Url("https", IF k = 1 THEN "competitor/1" ELSE "competitor/2")

PageRow(id, url, is_primary, title) ==
    [id |-> id, url |-> url, domain |-> url.name, is_primary |-> is_primary,
     title |-> title, description |-> "description", h1 |-> "h1",
     content_text |-> "content", word_count |-> Some(1), schema_data |-> NULL]

ChunkRow(id, page_id, chunk_index, content, token_count) ==
    [id |-> id, page_id |-> page_id, chunk_index |-> chunk_index,
     content |-> content, token_count |-> token_count]

\* The topics a chunk of the analysis may be about: the primary chunks about
\* topic 1 or (the second) topic 2, the first competitor chunk about any topic,
\* the second about an even one.
TopicsOf(chunk_id) ==
    IF chunk_id <= 2 THEN 1..chunk_id
    ELSE IF chunk_id = 3 THEN Topics
    ELSE {k \in Topics : k % 2 = 0}

InitGaps ==
    /\ \E title \in {NULL, "title"} :
          pages = {PageRow(1, PrimaryUrl(1), TRUE, title),
                   PageRow(2, PrimaryUrl(2), TRUE, "title"),
                   PageRow(3, CompetitorUrl(1), FALSE, "title"),
                   PageRow(4, CompetitorUrl(2), FALSE, "title")}
    /\ \E p4 \in {3, 4} :
          chunks = {ChunkRow(1, 1, 0, Text(1, "words"), 1),
                    ChunkRow(2, 2, 0, Text(2, "words"), 1),
                    ChunkRow(3, 3, 0, Text(3, "words"), 1),
                    ChunkRow(4, p4, IF p4 = 3 THEN 1 ELSE 0, Text(4, "words"), 1)}
    /\ \E embedded \in SUBSET (1..4) :
       \E topic \in [1..4 -> Topics] :
          /\ \A c \in embedded : topic[c] \in TopicsOf(c)
          /\ \A c \in (1..4) \ embedded : topic[c] = 1
          /\ embeddings_tbl =
                {[chunk_id |-> c, embedding |-> Embedding(Text(topic[c], "words")),
                  model |-> EMBEDDING_MODEL] : c \in embedded}
    /\ gaps = << >>
    /\ seq = [pages |-> 4, chunks |-> 4]
    /\ \E threshold \in {MEDIUM_PRIORITY_BELOW, DEFAULT_SIMILARITY_THRESHOLD} :
          an = [runs |-> 0, reembeds |-> 0, similarity_threshold |-> threshold,
                primary |-> << >>, competitor |-> << >>,
                content_gaps |-> << >>,
                missing_pages |-> << >>, outcome |-> "none"]
    /\ StoreOpIdle
    /\ IngestIdle
    /\ FetchIdle
    /\ EmbedIdle

\* main.analyze_gaps: both get_all_embeddings queries, find_content_gaps,
\* store_gaps_batch when there are gaps, then get_all_gaps: detect_missing_pages
\* and, after it, detect_metadata_gaps.  outcome: how analyze_gaps ended.
AnalyzeGaps ==
    /\ an.runs < MaxRuns
    /\ \E primary \in Orderings(get_all_embeddings(TRUE)),
          competitor \in Orderings(get_all_embeddings(FALSE)) :
          LET content_gaps ==
                  find_content_gaps(primary, competitor, an.similarity_threshold)
              stores == Len(content_gaps) > 0
              raises == stores /\ ~GapsBatchValid(content_gaps)
              tbl == IF stores /\ ~raises
                     THEN store_gaps_batch(gaps, content_gaps) ELSE gaps
              ran == [an EXCEPT !.runs = @ + 1, !.primary = primary,
                                !.competitor = competitor,
                                !.content_gaps = content_gaps]
          IN  /\ gaps' = tbl
              /\ IF raises
                 THEN an' = [ran EXCEPT !.outcome = "ValidationError",
                                        !.missing_pages = << >>]
                 ELSE \E rows \in OrderedByScore(
                              MissingContentRows(tbl, an.similarity_threshold)) :
                         an' = [ran EXCEPT
                                  !.missing_pages = detect_missing_pages(rows),
                                  !.outcome = IF detect_metadata_gaps_raises
                                              THEN "NameError" ELSE "returned"]
    /\ UNCHANGED <<pages, chunks, embeddings_tbl, seq, op, pe, fetchVars, embedVars>>

\* vectorstore.store_embedding(db_path, chunk_id, embedding, model) between two
\* runs, once on a database: a chunk gets its first vector, or the vector of
\* its new text.
StoreEmbedding(chunk_id, embedding) ==
    /\ an.reembeds = 0
    /\ an.runs > 0
    /\ an.runs < MaxRuns
    /\ embeddings_tbl' =
          UpsertEmbedding(embeddings_tbl, chunk_id, embedding, EMBEDDING_MODEL)
    /\ embeddings_tbl' # embeddings_tbl
    /\ an' = [an EXCEPT !.reembeds = @ + 1]
    /\ UNCHANGED <<pages, chunks, gaps, seq, op, pe, fetchVars, embedVars>>

NextGaps ==
    \/ AnalyzeGaps
    \/ \E c \in 1..4 : \E topic \in TopicsOf(c) :
          StoreEmbedding(c, Embedding(Text(topic, "words")))

SpecGaps == InitGaps /\ [][NextGaps]_vars

(***************************************************************************)
(* The store functions, called one after the other on one database.        *)
(***************************************************************************)
MaxStoreOps == 2    \* most store calls on one database

\* PageModel(url=..., ...) validates: validate_url and word_count >= 0.
PageModel(a) ==
    /\ a.url # NoUrl
    /\ StartsWithHttp(a.url)
    /\ a.word_count # None => ValueOf(a.word_count) >= 0

\* cursor = SELECT id FROM pages WHERE url = ?; row = fetchone()
PageWithUrl(url) == {p \in pages : p.url = url}

\* UPDATE pages SET title=?, description=?, h1=?, content_text=?,
\* word_count=?, schema_data=? WHERE id = ?
UpdatedPage(p, a) ==
    [p EXCEPT !.title = a.title, !.description = a.description, !.h1 = a.h1,
              !.content_text = a.content_text, !.word_count = a.word_count,
              !.schema_data = a.schema_data]

\* INSERT INTO pages (url, domain, is_primary, title, ...) VALUES (...)
InsertedPage(id, a) ==
    [id |-> id, url |-> a.url, domain |-> a.domain, is_primary |-> a.is_primary,
     title |-> a.title, description |-> a.description, h1 |-> a.h1,
     content_text |-> a.content_text, word_count |-> a.word_count,
     schema_data |-> a.schema_data]

\* Table pages after store_page(db_path, **a) passed validation.
store_page(a) ==
    IF PageWithUrl(a.url) # {}
    THEN {IF p.url = a.url THEN UpdatedPage(p, a) ELSE p : p \in pages}
    ELSE pages \cup {InsertedPage(seq.pages + 1, a)}

\* Accepting any content.
ChunkModelAnyContent(a) ==
    /\ a.page_id > 0
    /\ a.chunk_index >= 0
    /\ a.token_count > 0

\* ChunkModel(page_id=..., chunk_index=..., content=..., token_count=...)
\* validates: the Field bounds and validate_content.
ChunkModel(a) ==
    /\ a.page_id > 0
    /\ a.chunk_index >= 0
    /\ a.content.kind # "empty"
    /\ strip(a.content.kind) # "empty"
    /\ a.token_count > 0

\* The row the upsert of store_chunk conflicts with.
ChunkAt(page_id, chunk_index) ==
    {c \in chunks : c.page_id = page_id /\ c.chunk_index = chunk_index}

\* INSERT INTO chunks ... ON CONFLICT(page_id, chunk_index) DO UPDATE SET
\* content=excluded.content, token_count=excluded.token_count
store_chunk(a) ==
    IF ChunkAt(a.page_id, a.chunk_index) # {}
    THEN {IF c \in ChunkAt(a.page_id, a.chunk_index)
          THEN [c EXCEPT !.content = a.content, !.token_count = a.token_count]
          ELSE c : c \in chunks}
    ELSE chunks \cup {ChunkRow(seq.chunks + 1, a.page_id, a.chunk_index,
                               a.content, a.token_count)}

\* chunk_id = cursor.lastrowid on the connection store_chunk has just opened:
\* the rowid of the row inserted, and 0 when the upsert updated a row (no row
\* was inserted on this connection).
store_chunk_lastrowid(a) ==
    IF ChunkAt(a.page_id, a.chunk_index) # {} THEN 0 ELSE seq.chunks + 1

\* The arguments of the calls.
PageArgs ==
    {[url |-> u, domain |-> u.name, is_primary |-> TRUE, title |-> "title",
      description |-> "description", h1 |-> "h1", content_text |-> c,
      word_count |-> w, schema_data |-> NULL] :
        u \in {Url("https", "a"), Url("http", "b"), Url("ftp", "a"),
               Url("", "a"), NoUrl},
        c \in {"", "content"},
        w \in {None, Some(-1), Some(0)}}

ChunkArgs ==
    {[page_id |-> p, chunk_index |-> i, content |-> c, token_count |-> n] :
        p \in {0, 1}, i \in {-1, 0, 1},
        c \in {Text(1, "words"), Text(2, "words"), Text(3, "space"),
               Text(4, "empty")},
        n \in {0, 1}}

Gap(url, gap_type, score, closest, priority) ==
    [competitor_url |-> url, closest_match_url |-> closest,
     similarity_score |-> score, gap_type |-> gap_type, priority |-> priority]

GapArgs ==
    {Gap(CompetitorUrl(1), "missing_content", Some(30), PrimaryUrl(1), NULL),
     Gap(CompetitorUrl(2), "thin_content", None, NoUrl, "high"),
     Gap(CompetitorUrl(1), "missing_content", Some(0), PrimaryUrl(1), NULL),
     Gap(CompetitorUrl(1), "missing_content", Some(100), PrimaryUrl(1), NULL),
     Gap(CompetitorUrl(1), "missing_content", Some(101), PrimaryUrl(1), NULL),
     Gap(CompetitorUrl(1), "missing_content", Some(-1), PrimaryUrl(1), NULL),
     Gap(Url("ftp", "c"), "missing_content", Some(30), PrimaryUrl(1), NULL),
     Gap(NoUrl, "missing_content", Some(30), PrimaryUrl(1), NULL),
     Gap(CompetitorUrl(1), "missing_content", Some(30), Url("", "p"), NULL),
     Gap(CompetitorUrl(1), "duplicate", Some(30), PrimaryUrl(1), NULL),
     Gap(CompetitorUrl(1), "missing_content", Some(30), PrimaryUrl(1), "urgent")}

GapBatches ==
    {<<g>> : g \in GapArgs} \cup {<<g, h>> : g \in GapArgs, h \in GapArgs}

InitStore ==
    /\ EmptyDatabase
    /\ op = [name |-> "none", n |-> 0]
    /\ AnalysisIdle
    /\ IngestIdle
    /\ FetchIdle
    /\ EmbedIdle

\* What a call leaves in `op`: its name and arguments, the tables before it,
\* the exception it raised and the value it returned.
Called(name, a, raised, returned) ==
    [name |-> name, n |-> op.n + 1, args |-> a, raised |-> raised,
     returned |-> returned,
     before |-> [pages |-> pages, chunks |-> chunks, gaps |-> gaps]]

\* database.store_page(db_path, **a)
StorePage(a) ==
    /\ op.n < MaxStoreOps
    /\ IF ~PageModel(a)
       THEN /\ op' = Called("store_page", a, "ValidationError", 0)
            /\ UNCHANGED <<pages, seq>>
       ELSE /\ pages' = store_page(a)
            /\ LET row == CHOOSE p \in pages' : p.url = a.url
               IN /\ op' = Called("store_page", a, "none", row.id)
                  /\ seq' = [seq EXCEPT !.pages = IF row.id > @ THEN row.id ELSE @]
    /\ UNCHANGED <<chunks, embeddings_tbl, gaps, an, pe, fetchVars, embedVars>>

\* vectorstore.store_chunk(db_path, **a)
StoreChunk(a) ==
    /\ op.n < MaxStoreOps
    /\ IF ~ChunkModel(a)
       THEN /\ op' = Called("store_chunk", a, "ValidationError", 0)
            /\ UNCHANGED <<chunks, seq>>
       ELSE /\ chunks' = store_chunk(a)
            /\ op' = Called("store_chunk", a, "none", store_chunk_lastrowid(a))
            /\ seq' = [seq EXCEPT !.chunks = @ + 1]
    /\ UNCHANGED <<pages, embeddings_tbl, gaps, an, pe, fetchVars, embedVars>>

\* database.store_gaps_batch(db_path, gs)
StoreGapsBatch(gs) ==
    /\ op.n < MaxStoreOps
    /\ IF ~GapsBatchValid(gs)
       THEN /\ op' = Called("store_gaps_batch", gs, "ValidationError", 0)
            /\ UNCHANGED gaps
       ELSE /\ gaps' = store_gaps_batch(gaps, gs)
            /\ op' = Called("store_gaps_batch", gs, "none", 0)
    /\ UNCHANGED <<pages, chunks, embeddings_tbl, seq, an, pe, fetchVars, embedVars>>

NextStore ==
    \/ \E a \in PageArgs : StorePage(a)
    \/ \E a \in ChunkArgs : StoreChunk(a)
    \/ \E gs \in GapBatches : StoreGapsBatch(gs)

SpecStore == InitStore /\ [][NextStore]_vars

(***************************************************************************)
(* Claims about the gap analysis.                                          *)
(***************************************************************************)
\* The greatest similarity between a competitor tuple and the primary tuples.
BestMatch(comp, primary) ==
    CHOOSE m \in {cosine_similarity(comp.embedding, primary[k].embedding) :
                    k \in 1..Len(primary)} :
        \A k \in 1..Len(primary) :
            cosine_similarity(comp.embedding, primary[k].embedding) <= m

\* The positions of the competitor tuples of the latest run whose best match
\* is strictly below the threshold.
BelowThreshold ==
    {k \in 1..Len(an.competitor) :
        BestMatch(an.competitor[k], an.primary) < an.similarity_threshold}

\* C15: find_content_gaps returns one gap for each competitor tuple whose best
\* match is strictly below the threshold, in the order of the tuples, and
\* nothing else (no gap when the best match equals the threshold); with no
\* primary tuple it returns the empty list.
C15_GapIffBelowThreshold ==
    an.runs > 0 =>
        IF Len(an.primary) = 0 THEN an.content_gaps = << >>
        ELSE /\ Len(an.content_gaps) = Cardinality(BelowThreshold)
             /\ \A q \in 1..Len(an.content_gaps) :
                   /\ q <= Cardinality(BelowThreshold)
                   /\ an.content_gaps[q].competitor_url =
                         an.competitor[InOrder(BelowThreshold)[q]].url
                   /\ an.content_gaps[q].gap_type = "missing_content"

\* Two competitor tuples: the best match of one equals the threshold and it
\* has no gap, the other is below and has the only gap.
C15_Witness ==
    /\ an.runs > 0
    /\ Len(an.primary) > 0 /\ Len(an.competitor) = 2
    /\ \E k \in 1..2 :
          BestMatch(an.competitor[k], an.primary) = an.similarity_threshold
    /\ Len(an.content_gaps) = 1
    /\ an.competitor[1].url # an.competitor[2].url
    /\ \E k \in 1..2 :
          /\ BestMatch(an.competitor[k], an.primary) < an.similarity_threshold
          /\ an.content_gaps[1].competitor_url = an.competitor[k].url

\* C16: every gap of find_content_gaps belongs to a competitor tuple of its
\* URL whose greatest similarity to the primary tuples is the gap's score, and
\* its closest match is the URL of a primary tuple with that similarity.
C16_ScoreIsMaximum ==
    an.runs > 0 =>
        \A q \in 1..Len(an.content_gaps) :
            LET gap == an.content_gaps[q]
            IN  /\ gap.similarity_score # None
                /\ \E c \in 1..Len(an.competitor) :
                      /\ an.competitor[c].url = gap.competitor_url
                      /\ ValueOf(gap.similarity_score) =
                            BestMatch(an.competitor[c], an.primary)
                      /\ \E k \in 1..Len(an.primary) :
                            /\ an.primary[k].url = gap.closest_match_url
                            /\ cosine_similarity(an.competitor[c].embedding,
                                                 an.primary[k].embedding)
                                  = ValueOf(gap.similarity_score)

\* A gap whose competitor tuple is closer to the second primary tuple than to
\* the first, reported with the second's URL.
C16_Witness ==
    /\ an.runs > 0
    /\ Len(an.primary) = 2 /\ Len(an.competitor) > 0
    /\ Len(an.content_gaps) > 0
    /\ cosine_similarity(an.competitor[1].embedding, an.primary[1].embedding)
          < cosine_similarity(an.competitor[1].embedding, an.primary[2].embedding)
    /\ an.content_gaps[1].competitor_url = an.competitor[1].url
    /\ an.content_gaps[1].closest_match_url = an.primary[2].url
    /\ an.primary[1].url # an.primary[2].url

\* The stored missing-content scores of a URL that are below the threshold.
StoredScores(url) ==
    {ValueOf(gaps[k].similarity_score) :
        k \in {q \in 1..Len(gaps) :
                  /\ gaps[q].gap_type = "missing_content"
                  /\ gaps[q].competitor_url = url
                  /\ gaps[q].similarity_score # None
                  /\ ValueOf(gaps[q].similarity_score) < an.similarity_threshold}}

DetectedMissingPages == an.runs > 0 /\ an.outcome # "ValidationError"

\* C17: detect_missing_pages returns at most one gap for a competitor URL, and
\* its score is the lowest stored missing-content score of that URL below the
\* threshold.
C17_OnePerUrlLowestScore ==
    DetectedMissingPages =>
        /\ \A i, j \in 1..Len(an.missing_pages) :
              i # j => an.missing_pages[i].competitor_url
                          # an.missing_pages[j].competitor_url
        /\ \A i \in 1..Len(an.missing_pages) :
              LET scores == StoredScores(an.missing_pages[i].competitor_url)
              IN  /\ an.missing_pages[i].similarity_score \in scores
                  /\ \A x \in scores : an.missing_pages[i].similarity_score <= x

\* Two rows of different score are stored for the URL of a page with two
\* chunks, and the page is reported once.
C17_Witness ==
    /\ DetectedMissingPages
    /\ Len(an.missing_pages) = 1
    /\ Cardinality(StoredScores(an.missing_pages[1].competitor_url)) = 2

\* C18: the priority of a missing-page gap is high when its score is below
\* 0.2, medium from 0.2 to below 0.35, low from 0.35 on.
C18_PriorityBands ==
    DetectedMissingPages =>
        \A i \in 1..Len(an.missing_pages) :
            LET score == an.missing_pages[i].similarity_score
            IN  an.missing_pages[i].priority =
                   IF score < 20 THEN "high"
                   ELSE IF score >= 20 /\ score < 35 THEN "medium"
                   ELSE "low"

\* A report with a medium gap of score exactly 0.2 and a low gap of score
\* exactly 0.35.
C18_Witness ==
    /\ DetectedMissingPages
    /\ \E i, j \in 1..Len(an.missing_pages) :
          /\ an.missing_pages[i].similarity_score = 20
          /\ an.missing_pages[i].priority = "medium"
          /\ an.missing_pages[j].similarity_score = 35
          /\ an.missing_pages[j].priority = "low"

\* C19 as stated: after a run of analyze_gaps that returned, the rows of table
\* gaps are the gaps found by that run and nothing else, and every reported
\* missing page is one of them.
C19_GapsAreFreshView ==
    an.outcome = "returned" =>
        /\ gaps = GapRows(an.content_gaps)
        /\ \A i \in 1..Len(an.missing_pages) :
              \E q \in 1..Len(an.content_gaps) :
                 /\ an.content_gaps[q].competitor_url
                       = an.missing_pages[i].competitor_url
                 /\ ValueOf(an.content_gaps[q].similarity_score)
                       = an.missing_pages[i].similarity_score

(***************************************************************************)
(* Claims about the store functions.                                       *)
(***************************************************************************)
MalformedUrl(u) == u.scheme \notin {"http", "https"}

ScoreOutOfRange(g) ==
    g.similarity_score # None
    /\ (ValueOf(g.similarity_score) < 0 \/ ValueOf(g.similarity_score) > 100)

\* The latest call was given an entity that fails validation: a page with a
\* malformed URL, a chunk with empty or whitespace-only content, a batch with
\* a gap whose score is outside [0, 1] or whose competitor URL is not empty
\* and malformed.
GivenInvalidEntity ==
    \/ op.name = "store_page" /\ MalformedUrl(op.args.url)
    \/ op.name = "store_chunk" /\ IsBlank(op.args.content)
    \/ /\ op.name = "store_gaps_batch"
       /\ \E k \in 1..Len(op.args) :
             \/ ScoreOutOfRange(op.args[k])
             \/ /\ op.args[k].competitor_url # NoUrl
                /\ MalformedUrl(op.args[k].competitor_url)

TablesUnchanged ==
    /\ pages = op.before.pages
    /\ chunks = op.before.chunks
    /\ gaps = op.before.gaps

MaxIngestRuns == 2     \* most process_and_embed calls over one database
IngestBatchSize == 2   \* stands for batch_size=100 of the call in main.py

\* generate_embeddings_batch(..., max_retries: int = 3, max_concurrent: int = 5)
DEFAULT_MAX_RETRIES == 3
DEFAULT_MAX_CONCURRENT == 5
\* Settings.max_chunks_per_page: Field(default=10, gt=0, le=50)
DEFAULT_MAX_CHUNKS_PER_PAGE == 10

\* A chunk of a page: its text and what count_tokens returns for it. The text
\* id tells page, position and version of the content apart.
Chunk(page_id, k, version, kind, token_count) ==
    [text |-> Text(page_id * 100 + k * 10 + version, kind),
     token_count |-> token_count]

\* The content a crawl may store for a page, given as the chunks chunk_text
\* splits it into: one chunk, two chunks, a chunk followed by a
\* whitespace-only chunk, a chunk count_tokens counts 0 tokens for.
Contents(page_id, version) ==
    {<<Chunk(page_id, 1, version, "words", 1)>>,
     <<Chunk(page_id, 1, version, "words", 1),
       Chunk(page_id, 2, version, "words", 1)>>,
     <<Chunk(page_id, 1, version, "words", 1),
       Chunk(page_id, 2, version, "space", 1)>>,
     <<Chunk(page_id, 1, version, "words", 0)>>}

\* The second page has one chunk, or content chunk_text returns no chunk for.
ContentsOfPage(page_id, version) ==
    IF page_id = 1 THEN Contents(page_id, version)
    ELSE {<< >>, <<Chunk(page_id, 1, version, "words", 1)>>}

\* chunk_text(content, chunk_size, overlap=200): the chunks of a content.
chunk_text(content_text) == content_text

\* SELECT content_text FROM pages WHERE id = ?; `continue` without a row or
\* content; chunks[:config.max_chunks_per_page]
PageChunks(page_id, max_chunks_per_page) ==
    LET rows == {p \in pages : p.id = page_id}
    IN  IF rows = {} THEN << >>
        ELSE LET cs == chunk_text((CHOOSE p \in rows : TRUE).content_text)
             IN  SubSeq(cs, 1, Min(Len(cs), max_chunks_per_page))

RECURSIVE SkipPages(_, _, _)
\* The next page from position k of page_ids on that has a chunk to store.
SkipPages(page_ids, k, max_chunks_per_page) ==
    IF k > Len(page_ids) THEN k
    ELSE IF PageChunks(page_ids[k], max_chunks_per_page) = << >>
         THEN SkipPages(page_ids, k + 1, max_chunks_per_page)
         ELSE k

\* The embedding engine between two calls.
NoEmbedCall ==
    [n |-> 0, texts |-> << >>, batch_size |-> IngestBatchSize,
     max_retries |-> DEFAULT_MAX_RETRIES,
     max_concurrent |-> DEFAULT_MAX_CONCURRENT]

EmbedNotCalled ==
    /\ ecall = NoEmbedCall
    /\ b = << >>
    /\ esem = 0
    /\ epc = "idle"
    /\ embeddings = << >>

\* process_and_embed(page_ids, db_path, config) on entry.
Entered(run, page_ids, max_chunks_per_page, first) ==
    [pc |-> "chunking", run |-> run, page_ids |-> page_ids,
     max_chunks_per_page |-> max_chunks_per_page,
     p |-> first, i |-> 1,
     all_chunk_ids |-> << >>, all_chunks_text |-> << >>, exc |-> "none"]

IngestPage(id, url, is_primary, content_text) ==
    [PageRow(id, url, is_primary, "title") EXCEPT !.content_text = content_text]

\* After crawl_and_extract stored two pages in an empty database:
\* process_and_embed is entered with their ids.
InitIngest ==
    /\ \E c1 \in ContentsOfPage(1, 1), c2 \in ContentsOfPage(2, 1) :
          pages = {IngestPage(1, PrimaryUrl(1), TRUE, c1),
                   IngestPage(2, PrimaryUrl(2), TRUE, c2)}
    /\ chunks = {}
    /\ embeddings_tbl = {}
    /\ gaps = << >>
    /\ seq = [pages |-> 2, chunks |-> 0]
    /\ \E m \in {1, DEFAULT_MAX_CHUNKS_PER_PAGE} :
          pe = Entered(1, <<1, 2>>, m, SkipPages(<<1, 2>>, 1, m))
    /\ EmbedNotCalled
    /\ AnalysisIdle
    /\ StoreOpIdle
    /\ FetchIdle

\* One iteration of the inner loop: count_tokens, store_chunk, the two appends.
\* A ValidationError of store_chunk leaves process_and_embed (logged,
\* re-raised).
StoreNextChunk ==
    /\ pe.pc = "chunking"
    /\ pe.p <= Len(pe.page_ids)
    /\ LET cs == PageChunks(pe.page_ids[pe.p], pe.max_chunks_per_page)
           a == [page_id |-> pe.page_ids[pe.p], chunk_index |-> pe.i - 1,
                 content |-> cs[pe.i].text, token_count |-> cs[pe.i].token_count]
       IN  IF ~ChunkModel(a)
           THEN /\ pe' = [pe EXCEPT !.pc = "raised", !.exc = "ValidationError"]
                /\ UNCHANGED <<chunks, seq>>
           ELSE /\ chunks' = store_chunk(a)
                /\ seq' = [seq EXCEPT !.chunks = @ + 1]
                /\ pe' = [pe EXCEPT
                            !.all_chunk_ids = Append(@, store_chunk_lastrowid(a)),
                            !.all_chunks_text = Append(@, a.content),
                            !.p = IF pe.i < Len(cs) THEN @
                                  ELSE SkipPages(pe.page_ids, @ + 1,
                                                 pe.max_chunks_per_page),
                            !.i = IF pe.i < Len(cs) THEN @ + 1 ELSE 1]
    /\ UNCHANGED <<pages, embeddings_tbl, gaps, an, op, fetchVars, embedVars>>

\* After the loops: `return` when there is no chunk, else the call
\* generate_embeddings_batch(all_chunks_text, ..., batch_size=100).
GenerateEmbeddings ==
    /\ pe.pc = "chunking"
    /\ pe.p > Len(pe.page_ids)
    /\ IF pe.all_chunks_text = << >>
       THEN /\ pe' = [pe EXCEPT !.pc = "returned"]
            /\ UNCHANGED embedVars
       ELSE LET n == Len(pe.all_chunks_text)
                nb == (n + IngestBatchSize - 1) \div IngestBatchSize
            IN  /\ pe' = [pe EXCEPT !.pc = "embedding"]
                /\ ecall' = [ecall EXCEPT !.n = n, !.texts = pe.all_chunks_text]
                /\ b' = [j \in 1..nb |-> NewBatch]
                /\ esem' = SemaphoreInit(ecall.max_concurrent)
                /\ epc' = "gather"
                /\ embeddings' = << >>
    /\ UNCHANGED <<dbVars, an, op, fetchVars>>

\* EmbeddingModel(chunk_id=..., embedding=..., model=...) validates.
EmbeddingModel(chunk_id, embedding, model) ==
    /\ chunk_id > 0
    /\ embedding.ok
    /\ model # ""

RECURSIVE UpsertAll(_, _, _, _)
\* executemany of the upsert over data, in order.
UpsertAll(tbl, data, k, model) ==
    IF k > Len(data) THEN tbl
    ELSE UpsertAll(UpsertEmbedding(tbl, data[k].chunk_id, data[k].embedding, model),
                   data, k + 1, model)

\* valid_embeddings = [(chunk_id, emb) for chunk_id, emb in
\*                     zip(all_chunk_ids, embeddings) if emb is not None]
valid_embeddings(all_chunk_ids, embs) ==
    LET n == Min(Len(all_chunk_ids), Len(embs))
        kept == InOrder({k \in 1..n : embs[k] # Absent})
    IN  [q \in 1..Len(kept) |->
            [chunk_id |-> all_chunk_ids[kept[q]], embedding |-> embs[kept[q]]]]

\* generate_embeddings_batch has returned: valid_embeddings, and
\* store_embeddings_batch when there are any (it validates every pair before
\* it opens the database; its ValidationError leaves process_and_embed).
StoreEmbeddings ==
    /\ pe.pc = "embedding"
    /\ epc = "returned"
    /\ LET data == valid_embeddings(pe.all_chunk_ids, embeddings)
           invalid == \E k \in 1..Len(data) :
                         ~EmbeddingModel(data[k].chunk_id, data[k].embedding,
                                         EMBEDDING_MODEL)
       IN  IF invalid
           THEN /\ pe' = [pe EXCEPT !.pc = "raised", !.exc = "ValidationError"]
                /\ UNCHANGED embeddings_tbl
           ELSE /\ pe' = [pe EXCEPT !.pc = "returned"]
                /\ embeddings_tbl' =
                      UpsertAll(embeddings_tbl, data, 1, EMBEDDING_MODEL)
    /\ ecall' = NoEmbedCall
    /\ b' = << >>
    /\ esem' = 0
    /\ epc' = "idle"
    /\ embeddings' = << >>
    /\ UNCHANGED <<pages, chunks, gaps, seq, an, op, fetchVars>>

\* The next run of main.py on the same database: crawl_and_extract stores the
\* pages again (store_page updates the row of a known URL), each with content
\* unchanged or new, and process_and_embed is entered with the same ids.
NextRun ==
    /\ pe.pc \in {"returned", "raised"}
    /\ pe.run < MaxIngestRuns
    /\ \E content \in [1..2 -> {None} \cup {Some(c) : c \in UNION
                                 {ContentsOfPage(k, pe.run + 1) : k \in 1..2}}] :
          /\ \A k \in 1..2 : content[k] \subseteq ContentsOfPage(k, pe.run + 1)
          /\ pages' = {IF content[p.id] = None THEN p
                       ELSE [p EXCEPT !.content_text = ValueOf(content[p.id])] :
                       p \in pages}
    /\ \E ids \in {pe.page_ids}, m \in {pe.max_chunks_per_page} :
          pe' = Entered(pe.run + 1, ids, m, SkipPages(ids, 1, m)')
    /\ UNCHANGED <<chunks, embeddings_tbl, gaps, seq, an, op, fetchVars, embedVars>>

NextIngest ==
    \/ StoreNextChunk
    \/ GenerateEmbeddings
    \/ \E j \in Batches : EAdmit(j)
    \/ \E j \in Batches, o \in EmbedOutcomes : ERespond(j, o)
    \/ \E j \in Batches : EWake(j)
    \/ EGather
    \/ StoreEmbeddings
    \/ NextRun

SpecIngest == InitIngest /\ [][NextIngest]_vars

(***************************************************************************)
(* Claims about process_and_embed.                                         *)
(***************************************************************************)
AfterProcessAndEmbed == pe.pc \in {"returned", "raised"}

\* C14 as stated: after process_and_embed, every stored embedding belongs to a
\* stored chunk and is the vector of that chunk's text.
C14_EmbeddingsAligned ==
    AfterProcessAndEmbed =>
        \A e \in embeddings_tbl :
            \E c \in chunks :
                c.id = e.chunk_id /\ e.embedding = Embedding(c.content)

(***************************************************************************)
(* Part V.  database.store_page and store_pages_batch as calls that may    *)
(* overlap: each call opens its own connection, and its SELECT and its     *)
(* first write are separate awaits.                                        *)
(***************************************************************************)
MaxPageCalls == 2    \* most store_page / store_pages_batch calls

\* SELECT id FROM pages WHERE url = ? on table tbl: no id, or the one id.
SelectPageId(tbl, url) == {p.id : p \in {q \in tbl : q.url = url}}

\* One page of a call on the connection state s (table, AUTOINCREMENT counter,
\* ids so far): UPDATE ... WHERE id = ? when the SELECT gave a row, else
\* INSERT, which fails on `url TEXT UNIQUE` when the URL has a row by now.
StorePageOn(s, a, row) ==
    IF row # None
    THEN [s EXCEPT !.pages = {IF p.id = ValueOf(row) THEN UpdatedPage(p, a)
                              ELSE p : p \in s.pages},
                   !.ids = Append(@, ValueOf(row))]
    ELSE IF SelectPageId(s.pages, a.url) # None
         THEN [s EXCEPT !.exc = "IntegrityError"]
         ELSE [s EXCEPT !.pages = @ \cup {InsertedPage(s.n + 1, a)},
                        !.n = @ + 1,
                        !.ids = Append(@, s.n + 1)]

RECURSIVE StorePagesFrom(_, _, _)
\* The loop of store_pages_batch from page k on, inside the transaction its
\* first write opened: every SELECT sees the table as written so far.
StorePagesFrom(s, args, k) ==
    IF k > Len(args) \/ s.exc # "none" THEN s
    ELSE StorePagesFrom(
             StorePageOn(s, args[k], SelectPageId(s.pages, args[k].url)),
             args, k + 1)

\* The pages given to the calls.
PageCallArgs ==
    {[url |-> u, domain |-> u.name, is_primary |-> ip, title |-> title,
      description |-> "description", h1 |-> "h1", content_text |-> "content",
      word_count |-> Some(1), schema_data |-> NULL] :
        u \in {Url("https", "a"), Url("https", "b"), Url("ftp", "a")},
        ip \in BOOLEAN, title \in {NULL, "title"}}

\* The lists given to store_pages_batch: two pages, a URL twice among them.
PageBatchArgs ==
    {<<a, c>> : a \in {x \in PageCallArgs : x.is_primary /\ x.title = "title"},
                c \in {x \in PageCallArgs : ~x.is_primary /\ x.title = NULL}}

InitPages ==
    /\ EmptyDatabase
    /\ op = [name |-> "pages", calls |-> << >>, last |-> 0]
    /\ AnalysisIdle
    /\ IngestIdle
    /\ FetchIdle
    /\ EmbedIdle

\* A call up to its first SELECT: validation of every page (ValidationError
\* before the database is opened), aiosqlite.connect, SELECT id of the first
\* URL.
BeginStorePages(entry, args) ==
    /\ Len(op.calls) < MaxPageCalls
    /\ LET valid == \A k \in 1..Len(args) : PageModel(args[k])
       IN  op' = [op EXCEPT !.calls = Append(@,
                     [entry |-> entry, args |-> args,
                      pc |-> IF valid THEN "selected" ELSE "raised",
                      exc |-> IF valid THEN "none" ELSE "ValidationError",
                      row |-> IF valid THEN SelectPageId(pages, args[1].url)
                              ELSE None,
                      returned |-> << >>, updated |-> FALSE])]
    /\ UNCHANGED <<dbVars, an, pe, fetchVars, embedVars>>

\* The rest of call k: its first UPDATE or INSERT takes the write lock, the
\* other pages of a batch follow, commit; an sqlite3.IntegrityError leaves the
\* call with nothing committed.
FinishStorePages(k) ==
    /\ op.calls[k].pc = "selected"
    /\ LET c == op.calls[k]
           s == StorePagesFrom(
                    StorePageOn([pages |-> pages, n |-> seq.pages,
                                 ids |-> << >>, exc |-> "none"],
                                c.args[1], c.row),
                    c.args, 2)
       IN  IF s.exc # "none"
           THEN /\ op' = [op EXCEPT !.calls[k].pc = "raised",
                                    !.calls[k].exc = s.exc, !.last = k]
                /\ UNCHANGED <<pages, seq>>
           ELSE /\ op' = [op EXCEPT !.calls[k].pc = "returned",
                                    !.calls[k].returned = s.ids,
                                    !.calls[k].updated = (s.n = seq.pages),
                                    !.last = k]
                /\ pages' = s.pages
                /\ seq' = [seq EXCEPT !.pages = s.n]
    /\ UNCHANGED <<chunks, embeddings_tbl, gaps, an, pe, fetchVars, embedVars>>

NextPages ==
    \/ \E a \in PageCallArgs : BeginStorePages("store_page", <<a>>)
    \/ \E args \in PageBatchArgs : BeginStorePages("store_pages_batch", args)
    \/ \E k \in 1..Len(op.calls) : FinishStorePages(k)

SpecPages == InitPages /\ [][NextPages]_vars

(***************************************************************************)
(* Claims about store_page.                                                *)
(***************************************************************************)
\* The pages of the calls that got past validation and have ended, each with
\* the id the call returned for it (none when the call raised).
Attempted ==
    UNION {{[call |-> k, page |-> op.calls[k].args[i],
             id |-> IF op.calls[k].pc = "returned"
                    THEN Some(op.calls[k].returned[i]) ELSE None] :
               i \in 1..Len(op.calls[k].args)} :
           k \in {q \in 1..Len(op.calls) :
                     /\ op.calls[q].pc \in {"returned", "raised"}
                     /\ op.calls[q].exc # "ValidationError"}}

StoredUrls == {x.page.url : x \in {y \in Attempted : y.id # None}}

\* The table holds exactly one row for each URL stored.
OneRowPerUrl ==
    /\ \A p, q \in pages : p.url = q.url => p = q
    /\ {p.url : p \in pages} = StoredUrls

\* C21 as stated: whatever the calls and however they overlap, the table
\* holds exactly one row for each URL stored, and two calls storing the same
\* URL both return the id of its row.
C21_OneRowSameId ==
    /\ OneRowPerUrl
    /\ \A x, y \in Attempted :
          x.page.url = y.page.url =>
              /\ x.id # None
              /\ x.id = y.id
              /\ \E p \in pages : p.url = x.page.url /\ p.id = ValueOf(x.id)

\* The last call to end was a store_page that found the row of its URL and
\* returned.
StoredAgain ==
    /\ op.last > 0
    /\ op.calls[op.last].entry = "store_page"
    /\ op.calls[op.last].pc = "returned"
    /\ op.calls[op.last].updated

\* C22 as stated: after store_page was called again for a URL that has a row,
\* every attribute of the row is the one given to that call.
C22_EveryAttributeUpdated ==
    StoredAgain =>
        \A p \in pages :
            p.url = op.calls[op.last].args[1].url =>
                p = InsertedPage(p.id, op.calls[op.last].args[1])

(***************************************************************************)
(* Part VI.  vectorstore.store_embedding and store_embeddings_batch, called *)
(* one after the other on one database (each is one upsert statement, or   *)
(* one executemany, and its commit).                                       *)
(***************************************************************************)
MaxVectorOps == 2     \* most store_embedding / store_embeddings_batch calls

ChunkIds == {0, 1, 2}
Vectors == {Embedding(Text(1, "words")), Embedding(Text(2, "words"))}
ModelNames == {EMBEDDING_MODEL, "text-embedding-3-small", ""}

\* No store yet for any chunk id.
NoStores == [c \in ChunkIds |-> None]

RECURSIVE LatestStores(_, _, _, _)
\* The latest store of each chunk id after the tuples of data from k on.
LatestStores(latest, data, k, model) ==
    IF k > Len(data) THEN latest
    ELSE LatestStores(
             [latest EXCEPT ![data[k].chunk_id] =
                 Some([embedding |-> data[k].embedding, model |-> model])],
             data, k + 1, model)

InitVectors ==
    /\ EmptyDatabase
    /\ op = [name |-> "vectors", n |-> 0, latest |-> NoStores,
             call |-> "none", raised |-> "none", wrote |-> 0, replaced |-> 0]
    /\ AnalysisIdle
    /\ IngestIdle
    /\ FetchIdle
    /\ EmbedIdle

\* The rows of tbl that the tuples of data replace by another vector or model.
Replaced(tbl, data, model) ==
    {e \in tbl : \E k \in 1..Len(data) :
                    /\ data[k].chunk_id = e.chunk_id
                    /\ <<data[k].embedding, model>> # <<e.embedding, e.model>>}

\* vectorstore.store_embedding(db_path, chunk_id, embedding, model)
StoreOneEmbedding(chunk_id, embedding, model) ==
    /\ op.n < MaxVectorOps
    /\ LET data == <<[chunk_id |-> chunk_id, embedding |-> embedding]>>
       IN  /\ embeddings_tbl' =
                 UpsertEmbedding(embeddings_tbl, chunk_id, embedding, model)
           /\ op' = [op EXCEPT !.n = @ + 1, !.call = "store_embedding",
                               !.raised = "none", !.wrote = 1,
                               !.replaced = Cardinality(
                                   Replaced(embeddings_tbl, data, model)),
                               !.latest = LatestStores(@, data, 1, model)]
    /\ UNCHANGED <<pages, chunks, gaps, seq, an, pe, fetchVars, embedVars>>

\* vectorstore.store_embeddings_batch(db_path, chunk_ids, embeddings, model):
\* every pair with a vector is validated first; the pairs with a vector are
\* the data of the executemany.
StoreEmbeddingsBatch(chunk_ids, embs, model) ==
    /\ op.n < MaxVectorOps
    /\ LET data == valid_embeddings(chunk_ids, embs)
           invalid == \E k \in 1..Len(data) :
                         ~EmbeddingModel(data[k].chunk_id, data[k].embedding,
                                         model)
       IN  IF invalid
           THEN /\ op' = [op EXCEPT !.n = @ + 1,
                                    !.call = "store_embeddings_batch",
                                    !.raised = "ValidationError",
                                    !.wrote = 0, !.replaced = 0]
                /\ UNCHANGED embeddings_tbl
           ELSE /\ embeddings_tbl' = UpsertAll(embeddings_tbl, data, 1, model)
                /\ op' = [op EXCEPT !.n = @ + 1,
                                    !.call = "store_embeddings_batch",
                                    !.raised = "none", !.wrote = Len(data),
                                    !.replaced = Cardinality(
                                        Replaced(embeddings_tbl, data, model)),
                                    !.latest = LatestStores(@, data, 1, model)]
    /\ UNCHANGED <<pages, chunks, gaps, seq, an, pe, fetchVars, embedVars>>

\* The argument lists of a batch: one or two chunk ids, one or two vectors or
\* None.
ListsOver(S) == {<<x>> : x \in S} \cup {<<x, y>> : x \in S, y \in S}

NextVectors ==
    \/ \E c \in ChunkIds, v \in Vectors, m \in ModelNames :
          StoreOneEmbedding(c, v, m)
    \/ \E cs \in ListsOver(ChunkIds), vs \in ListsOver(Vectors \cup {Absent}),
          m \in ModelNames :
          StoreEmbeddingsBatch(cs, vs, m)

SpecVectors == InitVectors /\ [][NextVectors]_vars

(***************************************************************************)
(* Claims about the embedding store.                                       *)
(***************************************************************************)
\* C23: after any sequence of store_embedding and store_embeddings_batch calls
\* the embeddings table holds at most one row for a chunk id, a row only for
\* a chunk id that was stored, and the row of a stored chunk id has the vector
\* and the model of the latest store for it.
C23_OneRowLatestStore ==
    /\ \A e, f \in embeddings_tbl : e.chunk_id = f.chunk_id => e = f
    /\ \A e \in embeddings_tbl :
          /\ e.chunk_id \in ChunkIds
          /\ op.latest[e.chunk_id] # None
    /\ \A c \in ChunkIds :
          op.latest[c] # None =>
              \E e \in embeddings_tbl :
                  /\ e.chunk_id = c
                  /\ e.embedding = ValueOf(op.latest[c]).embedding
                  /\ e.model = ValueOf(op.latest[c]).model

\* A batch that stored one chunk id twice, over a row of an earlier call that
\* had another vector or model: one row.
C23_Witness ==
    /\ op.call = "store_embeddings_batch"
    /\ op.raised = "none"
    /\ op.wrote = 2
    /\ op.replaced = 1
    /\ Cardinality(embeddings_tbl) = 1

(***************************************************************************)
(* Part VII.  chunker.chunk_text: the text is given by the number of its   *)
(* tokens (of its words on the fallback path), a chunk by the slice of     *)
(* positions it holds.                                                     *)
(***************************************************************************)
MaxTokens == 6        \* most tokens (words) of a text
MaxChunkSize == 12    \* largest chunk_size
MaxOverlap == 8       \* largest overlap

Max(x, y) == IF x > y THEN x ELSE y

\* The index a slice bound i stands for in a list of n items (tokens[i:...]).
SliceIndex(i, n) == IF i < 0 THEN Max(n + i, 0) ELSE Min(i, n)

\* tokens[start:end], as the positions from..to-1 (none when to <= from).
Slice(start, end, n) ==
    [from |-> SliceIndex(start, n), to |-> SliceIndex(end, n)]

PositionsOf(chunk) == {k \in 0..(chunk.to - 1) : k >= chunk.from}

\* start = end, without the overlap.
NextStartWithoutOverlap(end, overlap, n) == end

\* start = end - overlap if end < len(tokens) else end
NextStart(end, overlap, n) == IF end < n THEN end - overlap ELSE end

\* Below this value of start every slice is empty and start only decreases:
\* the values below it are identified.
StartFloor(n, chunk_size) == 0 - (n + chunk_size)

\* chunks.append(...); of a list that grows without end the first n + 1 chunks
\* are kept (a call that returns appends at most n), and the number of the
\* chunks beyond them is counted modulo 2.
Appended(list, chunk, n) ==
    IF Len(list) <= n THEN Append(list, chunk) ELSE list

Beyond(list, more, n) == IF Len(list) <= n THEN more ELSE 1 - more

InitChunk ==
    /\ \E n \in 0..MaxTokens, chunk_size \in 1..MaxChunkSize,
          overlap \in 0..MaxOverlap, path \in {"token", "fallback"} :
          op = [name |-> "chunk_text", path |-> path, n |-> n,
                chunk_size |-> chunk_size, overlap |-> overlap,
                pc |-> "called", start |-> 0, chunks |-> << >>,
                more |-> 0, exc |-> "none"]
    /\ EmptyDatabase
    /\ AnalysisIdle
    /\ IngestIdle
    /\ FetchIdle
    /\ EmbedIdle

\* chunk_text up to its loop: [] for a blank text; tiktoken encodes, or raises
\* and the except branch splits the text into words; range() raises
\* ValueError for a step of 0 and is empty for a negative step.
EnterChunkText ==
    /\ op.pc = "called"
    /\ LET step == (op.chunk_size \div 4) - (op.overlap \div 4)
       IN  op' =
             IF op.n = 0 THEN [op EXCEPT !.pc = "returned"]
             ELSE IF op.path = "token" THEN [op EXCEPT !.pc = "while"]
             ELSE IF step = 0
                  THEN [op EXCEPT !.pc = "raised", !.exc = "ValueError"]
             ELSE IF step < 0 THEN [op EXCEPT !.pc = "returned"]
             ELSE [op EXCEPT !.pc = "for"]
    /\ UNCHANGED <<dbVars, an, pe, fetchVars, embedVars>>

\* One iteration of `while start < len(tokens)`.
TokenLoop ==
    /\ op.pc = "while"
    /\ op.start < op.n
    /\ LET end == Min(op.start + op.chunk_size, op.n)
           start == Max(NextStart(end, op.overlap, op.n),
                        StartFloor(op.n, op.chunk_size))
       IN  op' = [op EXCEPT
                    !.chunks = Appended(@, Slice(op.start, end, op.n), op.n),
                    !.more = Beyond(op.chunks, @, op.n),
                    !.start = start,
                    !.pc = IF start >= op.n THEN "returned" ELSE "while"]
    /\ UNCHANGED <<dbVars, an, pe, fetchVars, embedVars>>

\* One iteration of
\* `for i in range(0, len(words), chunk_word_size - overlap_word_size)`.
FallbackLoop ==
    /\ op.pc = "for"
    /\ op.start < op.n
    /\ LET chunk_word_size == op.chunk_size \div 4
           overlap_word_size == op.overlap \div 4
           i == op.start + (chunk_word_size - overlap_word_size)
       IN  op' = [op EXCEPT
                    !.chunks = Appended(@, Slice(op.start,
                                                 op.start + chunk_word_size,
                                                 op.n), op.n),
                    !.start = i,
                    !.pc = IF i >= op.n THEN "returned" ELSE "for"]
    /\ UNCHANGED <<dbVars, an, pe, fetchVars, embedVars>>

NextChunk ==
    \/ EnterChunkText
    \/ TokenLoop
    \/ FallbackLoop

SpecChunk == InitChunk /\ [][NextChunk]_vars

\* The interpreter goes on running the call.
SpecChunkFair == SpecChunk /\ WF_vars(NextChunk)

(***************************************************************************)
(* Claims about chunk_text.                                                *)
(***************************************************************************)
ReturnedChunks == op.pc = "returned" /\ op.n > 0

\* C24 as stated: the chunks returned for a non-blank text cover every
\* position of it, and its last position is in the last chunk.
C24_CoversInput ==
    ReturnedChunks =>
        /\ \A k \in 0..(op.n - 1) :
              \E c \in 1..Len(op.chunks) : k \in PositionsOf(op.chunks[c])
        /\ Len(op.chunks) > 0
        /\ (op.n - 1) \in PositionsOf(op.chunks[Len(op.chunks)])

TokenPathInRange ==
    /\ op.path = "token"
    /\ op.overlap < op.chunk_size
    /\ op.pc \in {"while", "returned"}

\* C25: on the token path with 0 <= overlap < chunk_size every chunk has from
\* 1 to chunk_size tokens, every chunk but the last returned has chunk_size
\* tokens, and two adjacent chunks share exactly `overlap` tokens.
C25_TokenChunksBounded ==
    TokenPathInRange =>
        \A c \in 1..Len(op.chunks) :
            LET size == Cardinality(PositionsOf(op.chunks[c]))
            IN  /\ size >= 1 /\ size <= op.chunk_size
                /\ (c < Len(op.chunks) \/ op.pc = "while") =>
                       size = op.chunk_size
                /\ c < Len(op.chunks) =>
                       Cardinality(PositionsOf(op.chunks[c])
                                   \cap PositionsOf(op.chunks[c + 1]))
                          = op.overlap

\* Three chunks returned with an overlap, the last one shorter than
\* chunk_size.
C25_Witness ==
    /\ TokenPathInRange
    /\ op.pc = "returned"
    /\ op.overlap > 0
    /\ Len(op.chunks) = 3
    /\ Cardinality(PositionsOf(op.chunks[3])) < op.chunk_size

\* C29 as stated: every call of chunk_text returns.
C29_Terminates == <>(op.pc = "returned")

(***************************************************************************)
(* More claims about process_and_embed.                                    *)
(***************************************************************************)
\* The store_chunk arguments of chunk i of the page at position k of page_ids.
ChunkArgsAt(k, i) ==
    LET cs == PageChunks(pe.page_ids[k], pe.max_chunks_per_page)
    IN  [page_id |-> pe.page_ids[k], chunk_index |-> i - 1,
         content |-> cs[i].text, token_count |-> cs[i].token_count]

\* C26 as stated, for the chunks table: when process_and_embed has ended,
\* every chunk of the given pages that passes validation is stored, whatever
\* happened to the other chunks.
C26_ChunkFailureContained ==
    AfterProcessAndEmbed =>
        \A k \in 1..Len(pe.page_ids) :
            \A i \in 1..Len(PageChunks(pe.page_ids[k], pe.max_chunks_per_page)) :
                ChunkModel(ChunkArgsAt(k, i)) =>
                    \E c \in chunks :
                        /\ c.page_id = pe.page_ids[k]
                        /\ c.chunk_index = i - 1
                        /\ c.content = ChunkArgsAt(k, i).content

(***************************************************************************)
(* Part VIII.  main.main from the crawl of the primary site on: each stage *)
(* (crawl_and_extract, process_and_embed, process_sitemap, analyze_gaps,   *)
(* generate_reports) returns or raises an Exception.                       *)
(***************************************************************************)
MaxCompetitors == 3    \* most competitors of a run

\* `return` on the error of a competitor.
AfterCompetitorReturns(o, outcome) ==
    [o EXCEPT !.log[o.k] = outcome, !.pc = "done"]

\* The end of one iteration of `for competitor_url in competitors`, by
\* `continue` or by reaching the end of the body: the next competitor, or the
\* statement after the loop.
AfterCompetitor(o, outcome) ==
    [o EXCEPT !.log[o.k] = outcome,
              !.k = @ + 1,
              !.sub = "sitemap",
              !.pc = IF o.k < o.n THEN "competitor" ELSE "analyze"]

\* The statement after the primary stages: the loop, or what follows it when
\* there is no competitor.
AfterPrimary(o, outcome) ==
    [o EXCEPT !.primary = outcome,
              !.pc = IF o.n > 0 THEN "competitor" ELSE "analyze"]

InitMain ==
    /\ \E n \in 0..MaxCompetitors :
          op = [name |-> "main", pc |-> "crawl_primary", sub |-> "sitemap",
                n |-> n, k |-> 1, log |-> [c \in 1..n |-> "none"],
                primary |-> "none", analysis |-> "none", reports |-> "none"]
    /\ EmptyDatabase
    /\ AnalysisIdle
    /\ IngestIdle
    /\ FetchIdle
    /\ EmbedIdle

\* try: primary_page_ids = await crawl_and_extract(...)
\* except Exception: primary_page_ids = []
CrawlPrimary(outcome) ==
    /\ op.pc = "crawl_primary"
    /\ op' = IF outcome = "page_ids"
             THEN [op EXCEPT !.pc = "embed_primary"]
             ELSE AfterPrimary(op, IF outcome = "raises" THEN "crawl_raised"
                                   ELSE "no_pages")
    /\ UNCHANGED <<dbVars, an, pe, fetchVars, embedVars>>

\* if primary_page_ids: try: await process_and_embed(...) except Exception
EmbedPrimary(outcome) ==
    /\ op.pc = "embed_primary"
    /\ op' = AfterPrimary(op, IF outcome = "raises" THEN "embed_raised"
                              ELSE "ok")
    /\ UNCHANGED <<dbVars, an, pe, fetchVars, embedVars>>

\* competitor_urls = await process_sitemap(...); `continue` without URLs
CompetitorSitemap(outcome) ==
    /\ op.pc = "competitor" /\ op.sub = "sitemap"
    /\ op' = IF outcome = "urls"
             THEN [op EXCEPT !.sub = "crawl", !.log[op.k] = "started"]
             ELSE AfterCompetitor(op, IF outcome = "raises"
                                      THEN "sitemap_raised" ELSE "no_urls")
    /\ UNCHANGED <<dbVars, an, pe, fetchVars, embedVars>>

\* competitor_page_ids = await crawl_and_extract(...)
CompetitorCrawl(outcome) ==
    /\ op.pc = "competitor" /\ op.sub = "crawl"
    /\ op' = IF outcome = "page_ids"
             THEN [op EXCEPT !.sub = "embed"]
             ELSE AfterCompetitor(op, IF outcome = "raises"
                                      THEN "crawl_raised" ELSE "no_pages")
    /\ UNCHANGED <<dbVars, an, pe, fetchVars, embedVars>>

\* if competitor_page_ids: await process_and_embed(...)
CompetitorEmbed(outcome) ==
    /\ op.pc = "competitor" /\ op.sub = "embed"
    /\ op' = AfterCompetitor(op, IF outcome = "raises" THEN "embed_raised"
                                 ELSE "ok")
    /\ UNCHANGED <<dbVars, an, pe, fetchVars, embedVars>>

\* try: gaps = await analyze_gaps(...) except Exception: return
MainAnalyzeGaps(outcome) ==
    /\ op.pc = "analyze"
    /\ op' = IF outcome = "raises"
             THEN [op EXCEPT !.analysis = "raised", !.pc = "done"]
             ELSE [op EXCEPT !.analysis = "returned", !.pc = "reports"]
    /\ UNCHANGED <<dbVars, an, pe, fetchVars, embedVars>>

\* try: await generate_reports(gaps, config) except Exception: return
GenerateReports(outcome) ==
    /\ op.pc = "reports"
    /\ op' = [op EXCEPT !.reports = IF outcome = "raises" THEN "raised"
                                    ELSE "returned",
                        !.pc = "done"]
    /\ UNCHANGED <<dbVars, an, pe, fetchVars, embedVars>>

NextMain ==
    \/ \E o \in {"page_ids", "no_pages", "raises"} : CrawlPrimary(o)
    \/ \E o \in {"returns", "raises"} : EmbedPrimary(o)
    \/ \E o \in {"urls", "no_urls", "raises"} : CompetitorSitemap(o)
    \/ \E o \in {"page_ids", "no_pages", "raises"} : CompetitorCrawl(o)
    \/ \E o \in {"returns", "raises"} : CompetitorEmbed(o)
    \/ \E o \in {"returns", "raises"} : MainAnalyzeGaps(o)
    \/ \E o \in {"returns", "raises"} : GenerateReports(o)

SpecMain == InitMain /\ [][NextMain]_vars

(***************************************************************************)
(* Claims about main.                                                      *)
(***************************************************************************)
StageRaised == {"crawl_raised", "embed_raised", "sitemap_raised"}

\* C27: after a failure in the crawl or the embedding of the primary site or
\* in a competitor, the run does not end before every competitor has been
\* processed and analyze_gaps has been called; analyze_gaps is called after
\* the last competitor.
C27_FailureDoesNotStop ==
    /\ op.pc = "done" => op.analysis # "none"
    /\ op.analysis # "none" => \A c \in 1..op.n : op.log[c] # "none"
    /\ op.pc = "competitor" =>
          /\ op.k <= op.n
          /\ \A c \in 1..(op.k - 1) : op.log[c] # "none"

\* A run that ended after the primary crawl raised, the first competitor
\* raised and the last one was embedded.
C27_Witness ==
    /\ op.pc = "done"
    /\ op.n >= 2
    /\ op.primary \in StageRaised
    /\ op.log[1] \in StageRaised
    /\ op.log[op.n] = "ok"
    /\ op.analysis = "returned"

(***************************************************************************)
(* Part IX.  The normalisation in generate_embeddings_batch.process_batch. *)
(* A vector of the service is given by its L2 norm, m * 10^k in units of   *)
(* EPSILON; the vector divided by (norm + EPSILON) has the norm            *)
(* norm / (norm + EPSILON).                                                *)
(***************************************************************************)
MaxExponent == 10     \* norms up to 5 * 10^10 * EPSILON = 5.0

\* EPSILON = 1e-10, the unit of the norms.
EPSILON == 1
\* dtype=np.float32 carries six decimal digits: a norm counts as 1 when it
\* is within 10^-6 of 1.
FLOAT32_DIGITS == 6

RECURSIVE Pow10(_)
Pow10(k) == IF k = 0 THEN 1 ELSE 10 * Pow10(k - 1)

ServiceVectors ==
    {[m |-> 0, k |-> 0]}
    \cup {[m |-> m, k |-> k] : m \in {1, 5}, k \in 0..MaxExponent}

\* embedding / (np.linalg.norm(embedding) + EPSILON): how far the norm of the
\* quotient is below 1, in units of 10^-6 rounded down, that is
\* 10^6 * EPSILON / (norm + EPSILON).
NormDefect(v) ==
    IF v.k > FLOAT32_DIGITS THEN 0
    ELSE (Pow10(FLOAT32_DIGITS) * EPSILON) \div (v.m * Pow10(v.k) + EPSILON)

InitNormalize ==
    /\ \E data \in ListsOver(ServiceVectors) :
          op = [name |-> "process_batch", data |-> data,
                batch_embeddings |-> << >>]
    /\ EmptyDatabase
    /\ AnalysisIdle
    /\ IngestIdle
    /\ FetchIdle
    /\ EmbedIdle

\* One iteration of `for idx, embedding_data in zip(indices, response.data)`.
NormalizeNext ==
    /\ Len(op.batch_embeddings) < Len(op.data)
    /\ LET v == op.data[Len(op.batch_embeddings) + 1]
       IN  op' = [op EXCEPT !.batch_embeddings =
                     Append(@, [of |-> v, defect |-> NormDefect(v)])]
    /\ UNCHANGED <<dbVars, an, pe, fetchVars, embedVars>>

NextNormalize == NormalizeNext

SpecNormalize == InitNormalize /\ [][NextNormalize]_vars

(***************************************************************************)
(* Claims about the normalisation.                                         *)
(***************************************************************************)
\* C28 as stated: every vector the engine returns has L2 norm 1 within the
\* tolerance, whatever vector the service returned.
C28_UnitNorm ==
    \A i \in 1..Len(op.batch_embeddings) : op.batch_embeddings[i].defect <= 1

(***************************************************************************)
(* Part X.  store_chunk and store_chunks_batch on one database, and the    *)
(* ids they return.  cursor.lastrowid is the rowid of the latest row       *)
(* inserted on the connection of the call, 0 when there is none; an upsert *)
(* that updates a row inserts none, and takes a value of the AUTOINCREMENT *)
(* sequence all the same.                                                  *)
(***************************************************************************)
MaxChunkCalls == 2    \* most calls on one database

ChunkCallArgs ==
    {[page_id |-> 1, chunk_index |-> i, content |-> c, token_count |-> n] :
        i \in {0, 1}, c \in {Text(1, "words"), Text(2, "words")},
        n \in {0, 1}}

\* One db.execute of the upsert on a connection in state s: the table, the
\* sequence, the connection's last inserted rowid and the ids collected.
ExecuteChunkUpsert(s, a) ==
    LET conflict == {c \in s.tbl : /\ c.page_id = a.page_id
                                   /\ c.chunk_index = a.chunk_index}
        last == IF conflict # {} THEN s.last ELSE s.n + 1
    IN  [tbl  |-> IF conflict # {}
                  THEN {IF c \in conflict
                        THEN [c EXCEPT !.content = a.content,
                                       !.token_count = a.token_count]
                        ELSE c : c \in s.tbl}
                  ELSE s.tbl \cup {ChunkRow(s.n + 1, a.page_id, a.chunk_index,
                                            a.content, a.token_count)},
         n    |-> s.n + 1,
         last |-> last,
         ids  |-> Append(s.ids, last)]

\* for chunk in chunks_data: cursor = await db.execute(...);
\*                           chunk_ids.append(cursor.lastrowid)
RECURSIVE ExecuteChunkUpserts(_, _, _)
ExecuteChunkUpserts(s, cs, k) ==
    IF k > Len(cs) THEN s
    ELSE ExecuteChunkUpserts(ExecuteChunkUpsert(s, cs[k]), cs, k + 1)

\* async with aiosqlite.connect(db_path) as db
NewConnection ==
    [tbl |-> chunks, n |-> seq.chunks, last |-> 0, ids |-> << >>]

InitChunkStore ==
    /\ EmptyDatabase
    /\ op = [name |-> "none", n |-> 0]
    /\ AnalysisIdle
    /\ IngestIdle
    /\ FetchIdle
    /\ EmbedIdle

\* vectorstore.store_chunk(db_path, **a)
StoreOneChunk(a) ==
    /\ op.n < MaxChunkCalls
    /\ IF ~ChunkModel(a)
       THEN /\ op' = Called("store_chunk", <<a>>, "ValidationError", << >>)
            /\ UNCHANGED <<chunks, seq>>
       ELSE /\ chunks' = store_chunk(a)
            /\ op' = Called("store_chunk", <<a>>, "none",
                            <<store_chunk_lastrowid(a)>>)
            /\ seq' = [seq EXCEPT !.chunks = @ + 1]
    /\ UNCHANGED <<pages, embeddings_tbl, gaps, an, pe, fetchVars, embedVars>>

\* vectorstore.store_chunks_batch(db_path, cs)
StoreChunksBatch(cs) ==
    /\ op.n < MaxChunkCalls
    /\ IF \E k \in 1..Len(cs) : ~ChunkModel(cs[k])
       THEN /\ op' = Called("store_chunks_batch", cs, "ValidationError", << >>)
            /\ UNCHANGED <<chunks, seq>>
       ELSE LET s == ExecuteChunkUpserts(NewConnection, cs, 1)
            IN  /\ chunks' = s.tbl
                /\ seq' = [seq EXCEPT !.chunks = s.n]
                /\ op' = Called("store_chunks_batch", cs, "none", s.ids)
    /\ UNCHANGED <<pages, embeddings_tbl, gaps, an, pe, fetchVars, embedVars>>

NextChunkStore ==
    \/ \E a \in ChunkCallArgs : StoreOneChunk(a)
    \/ \E cs \in ListsOver(ChunkCallArgs) : StoreChunksBatch(cs)

SpecChunkStore == InitChunkStore /\ [][NextChunkStore]_vars

(***************************************************************************)
(* Claims about the ids of the chunks.                                     *)
(***************************************************************************)
\* C30 as stated: a call of store_chunk or store_chunks_batch that returns,
\* returns for each chunk the id of the row of the table that holds its
\* (page_id, chunk_index), whether the row was inserted or updated.
C30_ReturnsRowIds ==
    (op.n > 0 /\ op.raised = "none") =>
        /\ Len(op.returned) = Len(op.args)
        /\ \A k \in 1..Len(op.args) :
              \E c \in chunks : /\ c.page_id = op.args[k].page_id
                                /\ c.chunk_index = op.args[k].chunk_index
                                /\ c.id = op.returned[k]

(***************************************************************************)
(* Claims about the metadata gaps.                                         *)
(***************************************************************************)
\* The call of detect_metadata_gaps by get_all_gaps was reached in the
\* latest run of analyze_gaps.
MetadataGapsCalled == an.runs > 0 /\ an.outcome # "ValidationError"

\* C31 as stated: detect_metadata_gaps returns without raising, with one gap
\* for each primary page that lacks a title, a description or an h1 and no
\* gap for any other page.
C31_OneGapPerLackingPage ==
    MetadataGapsCalled =>
        /\ detect_metadata_gaps.raised = "none"
        /\ an.outcome = "returned"
        /\ detect_metadata_gaps.urls =
              {p.url : p \in {q \in pages :
                                 /\ q.is_primary
                                 /\ (q.title = NULL \/ q.description = NULL
                                     \/ q.h1 = NULL)}}

(***************************************************************************)
(* Claims about the gaps analyze_gaps stores.                              *)
(***************************************************************************)
\* C32 as stated: every gap find_content_gaps emits passes the validation of
\* store_gaps_batch, so analyze_gaps does not end in a ValidationError.
C32_EmittedGapsAccepted ==
    an.runs > 0 =>
        /\ \A k \in 1..Len(an.content_gaps) : GapModel(an.content_gaps[k])
        /\ an.outcome # "ValidationError"

\* C33 as stated: every row of table gaps has the priority value of the band
\* of its similarity score.
C33_StoredPriorityIsBand ==
    \A k \in 1..Len(gaps) :
        gaps[k].similarity_score # None =>
            gaps[k].priority =
                get_priority_value(
                    MissingPagePriority(ValueOf(gaps[k].similarity_score)))

(***************************************************************************)
(* Claims about a page that is processed again.                            *)
(***************************************************************************)
\* The loops of the latest process_and_embed have stored every chunk.
ChunksStored == pe.p > Len(pe.page_ids) /\ pe.exc = "none"

\* The rows of table chunks a page has.
ChunksOfPage(page_id) == {c \in chunks : c.page_id = page_id}

\* C34 as stated: once a run has stored the chunks of its pages, the chunks
\* of each page are those of its latest chunking, one row for each index below
\* the chunk count and none at or beyond it, and no stored embedding belongs
\* to a chunk at or beyond the count.
C34_OnlyLatestChunking ==
    ChunksStored =>
        \A k \in 1..Len(pe.page_ids) :
            LET cs == PageChunks(pe.page_ids[k], pe.max_chunks_per_page)
            IN  /\ \A c \in ChunksOfPage(pe.page_ids[k]) :
                      /\ c.chunk_index < Len(cs)
                      /\ c.content = cs[c.chunk_index + 1].text
                /\ \A i \in 1..Len(cs) :
                      \E c \in ChunksOfPage(pe.page_ids[k]) :
                          c.chunk_index = i - 1
                /\ \A e \in embeddings_tbl :
                      \A c \in ChunksOfPage(pe.page_ids[k]) :
                          c.id = e.chunk_id => c.chunk_index < Len(cs)

(***************************************************************************)
(* Part XI.  fetch_urls_batch called on its own, with the event loop       *)
(* running every coroutine that can run and every request and sleep coming *)
(* to its end.                                                             *)
(***************************************************************************)
MaxBatchUrls == 2     \* longest URL list of the call

\* fetch_urls_batch(urls, max_concurrent, timeout, retry_attempts, headers,
\* session): any URL list, the empty one too; session None or a caller's open
\* session with a strict per-host limit.
InitBatch ==
    /\ \E n \in 0..MaxBatchUrls :
       \E host \in [1..n -> Hosts], R \in 1..RetryRange(n),
          N \in 1..Max(1, ConcurrentRange(n)),
          m \in {NoManager} \cup {c \in CallerManagers : c.session = "open"} :
          /\ n > 0 => host[1] = "A"
          /\ call = [entry |-> "fetch_urls_batch", n |-> n, host |-> host,
                     max_concurrent |-> N, retry_attempts |-> R]
          /\ mgr = m
    /\ own = [wrapper |-> FALSE, batch |-> FALSE]
    /\ wpc = "try"
    /\ exc = "none"
    /\ t = [i \in 1..call.n |-> NewTask]
    /\ sem = 0
    /\ results = << >>
    /\ EmbedIdle
    /\ StoreIdle

NextBatch ==
    \/ StartBatch
    \/ \E i \in Tasks : Admit(i)
    \/ \E i \in Tasks : Connect(i)
    \/ \E i \in Tasks, r \in Outcomes : Respond(i, r)
    \/ \E i \in Tasks : Wake(i)
    \/ Gather
    \/ BatchFinally

SpecBatch == InitBatch /\ [][NextBatch]_vars

\* Every request ends (status, error or timeout), every sleep ends, and the
\* event loop runs what is ready.
SpecBatchFair == SpecBatch /\ WF_vars(NextBatch)

(***************************************************************************)
(* Claims about the progress of fetch_urls_batch.                          *)
(***************************************************************************)
\* C35: fetch_urls_batch, once called, returns; every URL waiting at the
\* gate is admitted; and when the call has returned every slot of the
\* semaphore has been given back, whatever the fetches ended in.
C35_BatchReturns ==
    /\ (wpc = "try") ~> (wpc = "returned")
    /\ \A i \in 1..MaxBatchUrls :
          (i \in Tasks /\ t[i].pc = "gate") ~>
              (i \in Tasks /\ t[i].pc \notin {"new", "gate"})
    /\ [](wpc = "returned" =>
             /\ sem = SemaphoreInit(call.max_concurrent)
             /\ \A i \in Tasks : t[i].pc = "done")

\* The call has returned; there were more URLs than slots, so a URL waited at
\* the gate; one fetch gave up after a timeout and one ended on a 404.
C35_Witness ==
    /\ wpc = "returned"
    /\ call.n > call.max_concurrent
    /\ sem = call.max_concurrent
    /\ \E i, j \in Tasks :
          /\ t[i].last = Err("timeout") /\ t[i].result = Absent
          /\ t[j].last = Resp(404)

(***************************************************************************)
(* Claims about the waits before a retry.                                  *)
(***************************************************************************)
\* C36 as stated: every service call of a batch after its first comes after
\* a sleep of its own, and every sleep has a positive wait.
C36_BackoffBeforeRetry ==
    \A j \in Batches :
        /\ b[j].calls <= b[j].sleeps + 1
        /\ b[j].pc = "backoff" => b[j].wait > 0

\* C37 as stated: fetch_url sleeps only when another attempt follows; after
\* the attempt numbered retry_attempts has failed there is no sleep, so a call
\* starts fewer sleeps than retry_attempts.
C37_NoSleepAfterFinalAttempt ==
    \A i \in Tasks :
        /\ t[i].pc = "backoff" =>
              HasNextAttempt(t[i].attempt, call.retry_attempts)
        /\ t[i].sleeps < call.retry_attempts

(***************************************************************************)
(* Part XII.  DatabasePool used by coroutines of one event loop: a         *)
(* coroutine runs alone up to its next await, so get_connection is cut at  *)
(* `await aiosqlite.connect` and at `await asyncio.sleep`.                 *)
(***************************************************************************)
MaxPoolCallers == 3   \* coroutines using the pool
MaxPoolGets == 2      \* get_connection calls of one coroutine

NoConnection == 0

\* self._available.pop(): the last element and the list without it.
PoolPop(pool, c) ==
    [pool EXCEPT
       !.available = SubSeq(@, 1, Len(@) - 1),
       !.callers[c] = [@ EXCEPT !.pc = "holding",
                                !.conn = pool.available[Len(pool.available)]]]

\* DatabasePool(db_path, max_connections): no connection yet.
InitPool ==
    /\ \E m \in 1..2 :
          op = [name |-> "DatabasePool", max_connections |-> m,
                connections |-> << >>, available |-> << >>,
                callers |-> [c \in 1..MaxPoolCallers |->
                               [pc |-> "idle", conn |-> NoConnection,
                                gets |-> 0]]]
    /\ EmptyDatabase
    /\ AnalysisIdle
    /\ IngestIdle
    /\ FetchIdle
    /\ EmbedIdle

\* get_connection up to its first await or its return: pop an available
\* connection, or start aiosqlite.connect below the limit, or enter the wait
\* loop.
GetConnection(c) ==
    /\ op.callers[c].pc = "idle"
    /\ op.callers[c].gets < MaxPoolGets
    /\ LET called == [op EXCEPT !.callers[c].gets = @ + 1]
       IN  op' = IF Len(op.available) > 0 THEN PoolPop(called, c)
                 ELSE IF Len(op.connections) < op.max_connections
                 THEN [called EXCEPT !.callers[c].pc = "connecting"]
                 ELSE [called EXCEPT !.callers[c].pc = "waiting"]
    /\ UNCHANGED <<dbVars, an, pe, fetchVars, embedVars>>

\* aiosqlite.connect has returned: self._connections.append(conn); return conn
Connected(c) ==
    /\ op.callers[c].pc = "connecting"
    /\ LET conn == Len(op.connections) + 1
       IN  op' = [op EXCEPT !.connections = Append(@, conn),
                            !.callers[c] = [@ EXCEPT !.pc = "holding",
                                                     !.conn = conn]]
    /\ UNCHANGED <<dbVars, an, pe, fetchVars, embedVars>>

\* while not self._available: await asyncio.sleep(0.01)
\* return self._available.pop()
WaitOver(c) ==
    /\ op.callers[c].pc = "waiting"
    /\ Len(op.available) > 0
    /\ op' = PoolPop(op, c)
    /\ UNCHANGED <<dbVars, an, pe, fetchVars, embedVars>>

\* release_connection(conn) by the holder, once.
ReleaseConnection(c) ==
    /\ op.callers[c].pc = "holding"
    /\ LET conn == op.callers[c].conn
           known == \E k \in 1..Len(op.connections) : op.connections[k] = conn
       IN  op' = [op EXCEPT
                    !.available = IF known THEN Append(@, conn) ELSE @,
                    !.callers[c] = [@ EXCEPT !.pc = "idle",
                                             !.conn = NoConnection]]
    /\ UNCHANGED <<dbVars, an, pe, fetchVars, embedVars>>

NextPool ==
    \/ \E c \in 1..MaxPoolCallers : GetConnection(c)
    \/ \E c \in 1..MaxPoolCallers : Connected(c)
    \/ \E c \in 1..MaxPoolCallers : WaitOver(c)
    \/ \E c \in 1..MaxPoolCallers : ReleaseConnection(c)

SpecPool == InitPool /\ [][NextPool]_vars

(***************************************************************************)
(* Claims about the pool.                                                  *)
(***************************************************************************)
\* No connection is held by two callers, nor held and available at once.
HeldByOne ==
    /\ \A c, d \in 1..MaxPoolCallers :
          (c # d /\ op.callers[c].pc = "holding"
                 /\ op.callers[d].pc = "holding") =>
              op.callers[c].conn # op.callers[d].conn
    /\ \A c \in 1..MaxPoolCallers :
          op.callers[c].pc = "holding" =>
              \A k \in 1..Len(op.available) :
                  op.available[k] # op.callers[c].conn

\* C38 as stated: the pool never has more than max_connections connections
\* open, and no connection is held by two callers at once.
C38_PoolBounded ==
    /\ Len(op.connections) <= op.max_connections
    /\ HeldByOne

====
